---- MODULE Spec2Model ----
(***************************************************************************)
(* A model of the uC compiler middle end (src/uc_code.py): lowering of a   *)
(* function body to a control-flow graph of basic blocks, the dataflow     *)
(* analyses and the optimizer passes, together with the parts of the       *)
(* semantic analyser (src/uc_sema.py, src/objects.py) the properties       *)
(* below are about.                                                        *)
(*                                                                         *)
(* Python objects are modelled by identity: a Block is an index into the   *)
(* sequence heap, a predecessor list an index into plists (two blocks may  *)
(* share one list object, as changeCurrentBlock makes them do).  None is   *)
(* the index 0.                                                            *)
(*                                                                         *)
(* The methods are modelled as they are written.  The passes of the        *)
(* optimizer are actions of their own, since visit_Program has the calls   *)
(* commented out; an exception a method raises ends the pass and is kept   *)
(* in err.                                                                 *)
(***************************************************************************)
EXTENDS Integers, Sequences, FiniteSets, TLC

VARIABLES pc,      \* position of the driver in the pipeline
          node,    \* the FuncDef AST handed to the code generator
          cg,      \* the CodeGenerator object and the Block objects it made
          err,     \* the exception that ended the last pass, "" if none
          worklist, \* the list nodes of the pass that runs round by round
          sema,    \* the semantic analyser (uc_sema.Visitor) and its scopes
          eq       \* the value of the last comparison of two NodeInfo

vars == <<pc, node, cg, err, worklist, sema, eq>>

None == 0

(***************************************************************************)
(* Operands and instructions                                               *)
(***************************************************************************)

\* An operand of an instruction tuple.  k tells the textual form:
\*   "temp"  %<n>           a numbered temporary
\*   "name"  %<b>[.<n>]     a label made by make_label (block or variable)
\*   "glob"  @<b>           a global variable or function
\*   "lit"   <n>            a literal value
\*   "str"   @.str.<n>      an entry of the constant pool
\*   "none"                 Python None
Opnd(k, b, n) == [k |-> k, b |-> b, n |-> n]
NoOpnd == Opnd("none", "", 0)
Temp(n) == Opnd("temp", "", n)
Lit(v) == Opnd("lit", "", v)
Glob(x) == Opnd("glob", x, 0)

\* An instruction tuple (opcode, args...).  The opcode is family f and the
\* '_'-separated suffix components s: store_int_* is f = "store",
\* s = <<"int", "*">>.  A label pseudo-instruction (name + ':',) has
\* f = ":" and its name in lbl.
Inst(f, s, args) == [f |-> f, s |-> s, args |-> args, lbl |-> NoOpnd]
LabelInst(l) == [f |-> ":", s |-> <<>>, args |-> <<>>, lbl |-> l]
TupleLen(i) == 1 + Len(i.args)
Jump(l) == Inst("jump", <<>>, <<l>>)

(***************************************************************************)
(* AST nodes.  One record shape for every node class: k is the class name, *)
(* c the children in the order of the class's slots.                       *)
(***************************************************************************)
Node(k, op, name, value, type, c) ==
  [k |-> k, op |-> op, name |-> name, value |-> value, type |-> type, c |-> c]

EmptyStatement == Node("EmptyStatement", "", "", 0, "", <<>>)
Constant(type, v) == Node("Constant", "", "", v, type, <<>>)
ID(name, type) == Node("ID", "", name, 0, type, <<>>)
BinaryOp(op, type, e1, e2) == Node("BinaryOp", op, "", 0, type, <<e1, e2>>)
UnaryOp(op, type, e1) == Node("UnaryOp", op, "", 0, type, <<e1>>)
Assignment(op, lhs, e) == Node("Assignment", op, "", 0, lhs.type, <<lhs, e>>)
Decl(name, type) == Node("Decl", "", name, 0, type, <<>>)
PrintNode(e) == Node("Print", "", "", 0, "", <<e>>)
Read(e) == Node("Read", "", "", 0, "", <<e>>)
Break == Node("Break", "", "", 0, "", <<>>)
Return(e) == Node("Return", "", "", 0, e.type, <<e>>)
AssertNode(e) == Node("Assert", "", "", 0, "", <<e>>)   \* value: error_str
Compound(list) == Node("Compound", "", "", 0, "", list)
If(e, then, elze) == Node("If", "", "", 0, "", <<e, then, elze>>)
While(e, s) == Node("While", "", "", 0, "", <<e, s>>)
For(p1, p2, p3, s) == Node("For", "", "", 0, "", <<p1, p2, p3, s>>)
FuncDef(name, type, params, compound) ==
  Node("FuncDef", "", name, 0, type, <<Compound(params), compound>>)

\* EmptyStatement.__bool__ returns False; every other node is truthy.
Truthy(n) == n.k # "EmptyStatement"

(***************************************************************************)
(* Block objects and the CodeGenerator                                     *)
(***************************************************************************)

\* Block.__init__, BasicBlock.__init__, ConditionBlock.__init__.  A
\* BasicBlock has the attribute branch, a ConditionBlock taken and
\* fall_through; the attributes of the other class stay None and are never
\* read.  pl is the identity of the predecessors list.
Block(kind, label, pl) ==
  [kind |-> kind, label |-> label, instructions |-> <<>>, pl |-> pl,
   next_block |-> None, prev_block |-> None, visited |-> FALSE,
   code_obj |-> <<>>,
   branch |-> None, taken |-> None, fall_through |-> None,
   rd_in |-> {}, rd_out |-> {}, rd_gen |-> {}, rd_kill |-> {},
   la_use |-> {}, la_def |-> {}, la_in |-> {}, la_out |-> {}]

\* The names make_label is called with: block names and variable names.
LabelNames == {"entry", "exit", "if.then", "if.else", "if.end",
               "while.cond", "while.body", "while.end",
               "for.cond", "for.inc", "for.body", "for.end",
               "assert.false", "assert.true", "x", "y", "a"}

\* CodeGenerator.__init__ (the fields the passes use), before any function
\* is visited.  location is the 'location' entry of the symbol tables.
\* The dicts instruction_analisys makes live in objs, at index label + 1;
\* code_obj, and the code_obj of a block, list them by label, since the two
\* lists of the source share the dict objects.
NewGenerator(globals) ==
  [heap |-> <<>>, plists |-> <<>>,
   current_block |-> None, ret_block |-> None, loop_stack |-> <<>>,
   labels |-> [n \in LabelNames |-> 0],
   versions |-> 0,
   global_vars |-> {Glob(x) : x \in globals},
   objs |-> <<>>, code_obj |-> <<>>, label |-> 0,
   shared |-> {}, raised |-> "",
   location |-> [n \in LabelNames \cup globals |->
                   IF n \in globals THEN Glob(n) ELSE NoOpnd],
   gen_location |-> NoOpnd, ret_target |-> NoOpnd, end_jump |-> NoOpnd,
   cfg |-> None]

\* The statements of a method body, one after the other: the value is the
\* generator after the last one (the tuple is evaluated left to right).
Steps(gs) == gs[Len(gs)]

Min(a, b) == IF a < b THEN a ELSE b

\* for e in s[lo..hi]: acc = Op(acc, e).  The range is cut in four parts
\* done one after the other, so that the evaluation nests only
\* logarithmically deep.
RECURSIVE ForRange(_, _, _, _, _)
ForRange(Op(_, _), acc, s, lo, hi) ==
  CASE lo > hi -> acc
    [] lo = hi -> Op(acc, s[lo])
    [] OTHER ->
       LET q == (hi - lo + 4) \div 4
           a1 == ForRange(Op, acc, s, lo, lo + q - 1)
           a2 == ForRange(Op, a1, s, lo + q, Min(hi, lo + 2 * q - 1))
           a3 == ForRange(Op, a2, s, lo + 2 * q, Min(hi, lo + 3 * q - 1))
       IN <<a1, a2, a3, ForRange(Op, a3, s, lo + 3 * q, hi)>>[4]

\* for e in s: acc = Op(acc, e)
ForEach(Op(_, _), acc, s) == <<acc, ForRange(Op, acc, s, 1, Len(s))>>[2]

\* while not Done(acc): acc = Op(acc), for at most n rounds (cut in eight
\* parts, as in ForRange).
RECURSIVE Iterate(_, _, _, _)
Iterate(Op(_), Done(_), acc, n) ==
  CASE n <= 0 \/ Done(acc) -> acc
    [] n = 1 -> Op(acc)
    [] OTHER ->
       LET q == (n + 7) \div 8
           a1 == Iterate(Op, Done, acc, q)
           a2 == Iterate(Op, Done, a1, Min(q, n - q))
           a3 == Iterate(Op, Done, a2, Min(q, n - 2 * q))
           a4 == Iterate(Op, Done, a3, Min(q, n - 3 * q))
           a5 == Iterate(Op, Done, a4, Min(q, n - 4 * q))
           a6 == Iterate(Op, Done, a5, Min(q, n - 5 * q))
           a7 == Iterate(Op, Done, a6, Min(q, n - 6 * q))
       IN <<a1, a2, a3, a4, a5, a6, a7, Iterate(Op, Done, a7, n - 7 * q)>>[8]

\* The list with the elements f[1], ..., f[n], as a sequence value.
List(f, n) == SubSeq(f, 1, n)

Reverse(s) == List([i \in 1..Len(s) |-> s[Len(s) + 1 - i]], Len(s))

\* list.index(e): the first position of e in s, 0 if there is none.
Index(s, e) ==
  IF \E i \in 1..Len(s) : s[i] = e
  THEN CHOOSE i \in 1..Len(s) : s[i] = e /\ \A j \in 1..(i - 1) : s[j] # e
  ELSE 0

\* list.remove(e): s without its first element equal to e.
Remove(s, e) ==
  LET i == Index(s, e)
  IN IF i = 0 THEN s ELSE SubSeq(s, 1, i - 1) \o SubSeq(s, i + 1, Len(s))

\* A fresh Block object with a fresh, empty predecessors list.
NewBlockId(g) == Len(g.heap) + 1
NewBlock(g, kind, label) ==
  [g EXCEPT !.heap = Append(@, Block(kind, label, Len(g.plists) + 1)),
            !.plists = Append(@, <<>>)]

Preds(g, b) == g.plists[g.heap[b].pl]

\* Block.append
append(g, b, inst) == [g EXCEPT !.heap[b].instructions = Append(@, inst)]

\* b.predecessors.append(p)
AddPred(g, b, p) == [g EXCEPT !.plists[g.heap[b].pl] = Append(@, p)]

\* The next_block setter: also sets the successor's prev_block.
SetNext(g, b, n) ==
  IF n = None THEN [g EXCEPT !.heap[b].next_block = None]
  ELSE [g EXCEPT !.heap[b].next_block = n, !.heap[n].prev_block = b]

SetBranch(g, b, t) == [g EXCEPT !.heap[b].branch = t]

\* make_label without the count of the name stepped: the same label again.
make_label_reuse(g, name) ==
  [g |-> g, r |-> Opnd("name", name, g.labels[name])]

\* make_label: the first label of a name is %name, then %name.1, ...
make_label(g, name) ==
  [g |-> [g EXCEPT !.labels[name] = @ + 1],
   r |-> Opnd("name", name, g.labels[name])]

\* new_temp: the next temporary %n of the function being lowered.
new_temp(g) ==
  [g |-> [g EXCEPT !.versions = @ + 1], r |-> Temp(g.versions)]

\* The successor redirection shared by changeCurrentBlock,
\* changeBlockToBasic: every block of old's predecessor list is pointed
\* at new, through branch if it is a BasicBlock, else through taken if
\* taken is old, else through fall_through; its next_block follows too.
RECURSIVE RedirectPreds(_, _, _, _)
RedirectPreds(g, ps, old, new) ==
  IF ps = <<>> THEN g
  ELSE LET p == Head(ps)
           g1 == IF g.heap[p].kind = "BasicBlock"
                 THEN [g EXCEPT !.heap[p].branch = new]
                 ELSE IF g.heap[p].taken = old
                      THEN [g EXCEPT !.heap[p].taken = new]
                      ELSE [g EXCEPT !.heap[p].fall_through = new]
           g2 == IF g1.heap[p].next_block = old THEN SetNext(g1, p, new) ELSE g1
       IN RedirectPreds(g2, Tail(ps), old, new)

\* if b: b.next_block = n
SetNextIf(g, b, n) == IF b # None THEN SetNext(g, b, n) ELSE g

\* for pred in old.predecessors: ...
RedirectAll(g, old, new) == RedirectPreds(g, Preds(g, old), old, new)

\* changeCurrentBlock: the current BasicBlock is replaced by a new
\* ConditionBlock object that shares its instructions and predecessors.
changeCurrentBlock(g) ==
  LET old == g.current_block
      new == NewBlockId(g)
      ob == g.heap[old]
      g1 == [g EXCEPT !.heap = Append(@,
                [Block("ConditionBlock", ob.label, ob.pl)
                   EXCEPT !.instructions = ob.instructions])]
      g2 == SetNext(g1, new, ob.next_block)
      g3 == SetNextIf(g2, ob.prev_block, new)
      g4 == RedirectAll(g3, old, new)
  IN [g4 EXCEPT !.current_block = new]

(***************************************************************************)
(* Lowering: the visit_* methods of CodeGenerator.  Each takes the node    *)
(* and the generator and returns the generator after the call.             *)
(***************************************************************************)
binary_ops == [o \in {"+", "-", "*", "/", "%", "&&", "||", "==", "!=",
                      ">", "<", ">=", "<="} |->
  CASE o = "+" -> "add" [] o = "-" -> "sub" [] o = "*" -> "mul"
    [] o = "/" -> "div" [] o = "%" -> "mod" [] o = "&&" -> "and"
    [] o = "||" -> "or" [] o = "==" -> "eq" [] o = "!=" -> "ne"
    [] o = ">" -> "gt" [] o = "<" -> "lt" [] o = ">=" -> "ge"
    [] o = "<=" -> "le"]

Cur(g) == g.current_block
emit(g, inst) == append(g, Cur(g), inst)
LastInst(g) == LET is == g.heap[Cur(g)].instructions IN is[Len(is)]

RECURSIVE visit(_, _)
RECURSIVE visit_children(_, _)

\* for i, c in node.children(): self.visit(c).  (The test on g1 only makes
\* the evaluator finish one child before it starts the next; a generator
\* inside a function always has a current block.)
visit_children(list, g) ==
  IF list = <<>> THEN g
  ELSE LET g1 == visit(Head(list), g)
       IN IF g1.current_block = None THEN g1
          ELSE visit_children(Tail(list), g1)

\* Statements the visit_* methods share; each takes the generator once.
\* l is what make_label returned: the block gets the label l.r.
NewBlockL(l, kind) == NewBlock(l.g, kind, l.r)

\* self.current_block = b; b.append((label,))
Enter(g, b, label) == emit([g EXCEPT !.current_block = b], LabelInst(label))

\* current.next_block = b; current.branch = b; b.predecessors.append(current)
Link(g, b) == AddPred(SetBranch(SetNext(g, Cur(g), b), Cur(g), b), b, Cur(g))

\* current.branch = b; b.predecessors.append(current)
BranchTo(g, b) == AddPred(SetBranch(g, Cur(g), b), b, Cur(g))

\* current.append(('cbranch', self.gen_location, lt, lf))
Cbranch(g, lt, lf) == emit(g, Inst("cbranch", <<>>, <<g.gen_location, lt, lf>>))

\* current.taken = t; current.fall_through = f
SetArms(g, t, f) ==
  [g EXCEPT !.heap[Cur(g)].taken = t, !.heap[Cur(g)].fall_through = f]

\* t.predecessors.append(current); f.predecessors.append(current)
ArmPreds(g, t, f) == AddPred(AddPred(g, t, Cur(g)), f, Cur(g))

\* current.next_block = b
ChainTo(g, b) == SetNext(g, Cur(g), b)

\* current.next_block = b; b.predecessors.append(current)
NextPred(g, b) == AddPred(SetNext(g, Cur(g), b), b, Cur(g))

\* The cbranch that ends a condition block, with both arms and both edges.
CondBranch(g, lt, lf, t, f) ==
  IF g.raised # "" THEN g ELSE
  ArmPreds(SetArms(Cbranch(g, lt, lf), t, f), t, f)

\* current.next_block = b; self.current_block = b; b.append((label,))
EnterNext(g, b, label) ==
  IF g.raised # "" THEN g ELSE
  Enter(ChainTo(g, b), b, label)

\* self.loop_stack.append(b)
PushLoop(g, b) == [g EXCEPT !.loop_stack = Append(@, b)]

\* self.loop_stack.pop()
PopLoop(g) ==
  IF g.raised # "" THEN g ELSE
  [g EXCEPT !.loop_stack = SubSeq(@, 1, Len(@) - 1)]

\* if n: self.visit(n)
visit_opt(n, g) == IF Truthy(n) THEN visit(n, g) ELSE g

visit_Constant(n, g) ==
  LET t == new_temp(g)
  IN [emit(t.g, Inst("literal", <<n.type>>, <<Lit(n.value), t.r>>))
        EXCEPT !.gen_location = t.r]

visit_ID(n, g) ==
  LET t == new_temp(g)
  IN [emit(t.g, Inst("load", <<n.type>>, <<g.location[n.name], t.r>>))
        EXCEPT !.gen_location = t.r]

visit_BinaryOp(n, g) ==
  LET g1 == visit(n.c[1], g)
      g2 == visit(n.c[2], g1)
      t == new_temp(g2)
  IN Steps(<<g1, g2,
             [emit(t.g, Inst(binary_ops[n.op], <<n.c[1].type>>,
                             <<g1.gen_location, g2.gen_location, t.r>>))
                EXCEPT !.gen_location = t.r]>>)

\* visit_UnaryOp after the operand is visited: g1 is the generator then.
UnaryEmit(n, g1, var_loc) ==
  IF g1.raised # "" THEN g1 ELSE
   LET e1 == g1.gen_location
      ty == n.c[1].type
      t1 == new_temp(g1)
      t2 == new_temp(t1.g)
  IN CASE n.op = "+" -> g1
       [] n.op = "-" ->
            [emit(emit(t2.g, Inst("literal", <<ty>>, <<Lit(0), t1.r>>)),
                  Inst("sub", <<ty>>, <<t1.r, e1, t2.r>>))
               EXCEPT !.gen_location = t2.r]
       [] n.op \in {"++", "--"} ->
            [emit(emit(emit(t2.g,
                  Inst("literal", <<ty>>, <<Lit(1), t1.r>>)),
                  Inst(IF n.op = "++" THEN "add" ELSE "sub", <<ty>>, <<e1, t1.r, t2.r>>)),
                  Inst("store", <<ty>>, <<t2.r, var_loc>>))
               EXCEPT !.gen_location = t2.r]
       [] n.op \in {"p++", "p--"} ->
            [emit(emit(emit(t2.g,
                  Inst("literal", <<ty>>, <<Lit(1), t1.r>>)),
                  Inst(IF n.op = "p++" THEN "add" ELSE "sub", <<ty>>, <<e1, t1.r, t2.r>>)),
                  Inst("store", <<ty>>, <<t2.r, var_loc>>))
               EXCEPT !.gen_location = e1]
       [] n.op = "!" ->
            [emit(t1.g, Inst("not", <<ty>>, <<e1, t1.r>>))
               EXCEPT !.gen_location = t1.r]

visit_UnaryOp(n, g) == UnaryEmit(n, visit(n.c[1], g), g.location[n.c[1].name])

\* visit_Assignment after the right side is visited: g1 is the generator
\* then.
AssignEmit(n, g1, left_target) ==
  IF g1.raised # "" THEN g1 ELSE
   LET right_target == g1.gen_location
      ty == n.c[1].type
      t1 == new_temp(g1)
      t2 == new_temp(t1.g)
      op == CASE n.op = "+=" -> "add" [] n.op = "-=" -> "sub"
              [] n.op = "*=" -> "mul" [] n.op = "/=" -> "div"
              [] n.op = "%=" -> "mod"
  IN CASE n.op = "=" -> emit(g1, Inst("store", <<ty>>, <<right_target, left_target>>))
       [] n.op = "%/" -> [t1.g EXCEPT !.raised = "KeyError"]
       [] n.op \in {"+=", "-=", "*=", "/="} ->
            emit(emit(emit(t2.g,
                 Inst("load", <<ty>>, <<left_target, t1.r>>)),
                 Inst(op, <<ty>>, <<t1.r, right_target, t2.r>>)),
                 Inst("store", <<ty>>, <<t2.r, left_target>>))
       [] OTHER -> g1

\* visit_Assignment with an ID on the left; '%=' is spelled '%/' in the
\* list of compound operators of the source.
visit_Assignment(n, g) ==
  AssignEmit(n, visit(n.c[2], g), g.location[n.c[1].name])

\* The store of visit_Decl when the declaration has an initializer.
DeclInit(n, g2, target) ==
  IF g2.raised # "" THEN g2 ELSE
   IF n.c # <<>> /\ Truthy(n.c[1])
  THEN emit(g2, Inst("store", <<n.type>>, <<g2.gen_location, target>>))
  ELSE g2

\* visit_Decl of a scalar VarDecl, with or without initializer.
visit_Decl(n, g) ==
  LET l == make_label(g, n.name)
      g1 == [emit(l.g, Inst("alloc", <<n.type>>, <<l.r>>))
               EXCEPT !.location[n.name] = l.r]
  IN DeclInit(n, visit_children(n.c, g1), l.r)

PrintEmit(g1, type) ==
  IF g1.raised # "" THEN g1 ELSE
  emit(g1, Inst("print", <<type>>, <<g1.gen_location>>))

\* visit_Print of one ID, Constant (not a string) or other expression.
visit_Print(n, g) == PrintEmit(visit(n.c[1], g), n.c[1].type)

\* visit_Read of one ID.
visit_Read(n, g) ==
  LET t == new_temp(g)
      ty == n.c[1].type
  IN IF n.c[1].k = "ID"
     THEN emit(emit(t.g, Inst("read", <<ty>>, <<t.r>>)),
               Inst("store", <<ty>>, <<t.r, g.location[n.c[1].name]>>))
     ELSE g

visit_Break(n, g) ==
  BranchTo(emit(g, Jump(g.heap[g.loop_stack[Len(g.loop_stack)]].label)),
           g.loop_stack[Len(g.loop_stack)])

\* current.append(('store_<type>', self.gen_location, self.ret_target))
StoreRet(v, type, target) ==
  IF v.raised # "" THEN v ELSE
   emit(v, Inst("store", <<type>>, <<v.gen_location, target>>))

\* The jump to the exit block, with the edge to it.
ReturnJump(g) ==
  IF g.raised # "" THEN g ELSE
  BranchTo(emit(g, Jump(g.heap[g.ret_block].label)), g.ret_block)

visit_Return(n, g) ==
  ReturnJump(IF Truthy(n.c[1])
             THEN StoreRet(visit(n.c[1], g), n.type, g.ret_target)
             ELSE g)

\* The failing arm of visit_Assert: the block false_block prints the
\* message and jumps to the exit block.
AssertFail(g, false_block, lf, error_str) ==
  IF g.raised # "" THEN g ELSE
   BranchTo(emit(emit(Enter(g, false_block, lf),
                     Inst("print", <<"string">>, <<Opnd("str", "", error_str)>>)),
                Jump(g.heap[g.ret_block].label)),
           g.ret_block)

\* visit_Assert after changeCurrentBlock; g0 is the generator then.
AssertLower(n, g0) ==
  IF g0.raised # "" THEN g0 ELSE
   LET lf == make_label(g0, "assert.false")
      lt == make_label(lf.g, "assert.true")
      current_block == Cur(g0)
      false_block == NewBlockId(lt.g)
      g1 == NewBlock(lt.g, "BasicBlock", lf.r)
      true_block == NewBlockId(g1)
      g2 == NewBlock(g1, "BasicBlock", lt.r)
  IN Enter(AssertFail(CondBranch(visit(n.c[1],
                                       SetNext(SetNext(g2, current_block, false_block),
                                               false_block, true_block)),
                                 lt.r, lf.r, true_block, false_block),
                      false_block, lf.r, n.value),
           true_block, lt.r)

visit_Assert(n, g) == AssertLower(n, changeCurrentBlock(g))

\* if current.instructions[-1][0] != 'jump': the arm is closed with a jump
\* to if.end.
CloseArm(g, end_block, lend) ==
  IF g.raised # "" THEN g ELSE
   IF LastInst(g).f # "jump" THEN BranchTo(emit(g, Jump(lend)), end_block) ELSE g

\* One arm of visit_If: chain the arm's block, label it, visit the arm and,
\* unless its last instruction is a jump, close it with a jump to if.end.
IfArm(g, body, blk, lbl, end_block, lend) ==
  IF g.raised # "" THEN g ELSE
   IF ~Truthy(body) THEN g
  ELSE CloseArm(visit(body, SetBranch(Enter(SetNext(g, Cur(g), blk), blk, lbl),
                                      blk, end_block)),
                end_block, lend)

\* visit_If after changeCurrentBlock; g0 is the generator then.
IfLower(n, g0) ==
  IF g0.raised # "" THEN g0 ELSE
   LET elze == Truthy(n.c[3])
      lthen == make_label(g0, "if.then")
      then_block == NewBlockId(lthen.g)
      g1 == NewBlockL(lthen, "BasicBlock")
      lelse == make_label(g1, "if.else")
      else_block == NewBlockId(lelse.g)
      \* the label if.else is made, the block only when there is an else
      g2 == IF elze THEN NewBlockL(lelse, "BasicBlock") ELSE lelse.g
      lend == make_label(g2, "if.end")
      end_block == NewBlockId(lend.g)
      g3 == NewBlockL(lend, "BasicBlock")
      other == IF elze THEN else_block ELSE end_block
      lother == IF elze THEN lelse.r ELSE lend.r
  IN EnterNext(
       IfArm(IfArm(CondBranch(visit(n.c[1], g3), lthen.r, lother, then_block, other),
                   n.c[2], then_block, lthen.r, end_block, lend.r),
             n.c[3], else_block, lelse.r, end_block, lend.r),
       end_block, lend.r)

visit_If(n, g) == IfLower(n, changeCurrentBlock(g))

\* current.branch = condition_block; current.append(('jump', lcond));
\* condition_block.predecessors.append(current)
LoopBack(g, condition_block, lcond) ==
  IF g.raised # "" THEN g ELSE
   BranchTo(emit(g, Jump(lcond)), condition_block)

\* if node.statement: the body block is entered, the statement visited, and
\* the block closed with the jump back to while.cond.
WhileBody(g, body, body_block, lbody, condition_block, lcond) ==
  IF g.raised # "" THEN g ELSE
   IF ~Truthy(body) THEN g
  ELSE LoopBack(visit(body, Enter(ChainTo(g, body_block), body_block, lbody)),
                condition_block, lcond)

visit_While(n, g) ==
  LET lcond == make_label(g, "while.cond")
      lbody == make_label(lcond.g, "while.body")
      lend == make_label(lbody.g, "while.end")
      condition_block == NewBlockId(lend.g)
      g1 == NewBlock(lend.g, "ConditionBlock", lcond.r)
      body_block == NewBlockId(g1)
      g2 == NewBlock(g1, "BasicBlock", lbody.r)
      end_block == NewBlockId(g2)
      g3 == NewBlock(g2, "BasicBlock", lend.r)
  IN PopLoop(EnterNext(
       WhileBody(CondBranch(visit(n.c[1],
                                  Enter(Link(PushLoop(g3, end_block), condition_block),
                                        condition_block, lcond.r)),
                            lbody.r, lend.r, body_block, end_block),
                 n.c[2], body_block, lbody.r, condition_block, lcond.r),
       end_block, lend.r))

\* The parts of visit_For after the init statement, in turn: the condition
\* block with its cbranch, the body block, the increment block with the
\* jump back, and the end block.
ForCond(cond, g, condition_block, lcond, body_block, lbody, end_block, lend) ==
  IF g.raised # "" THEN g ELSE
   Enter(NextPred(SetArms(Cbranch(visit(cond, Enter(Link(g, condition_block),
                                                   condition_block, lcond)),
                                 lbody, lend),
                         body_block, end_block),
                 body_block),
        body_block, lbody)

ForBody(body, g, inc_block, linc) ==
  IF g.raised # "" THEN g ELSE
   Enter(Link(emit(visit_opt(body, g), Jump(linc)), inc_block), inc_block, linc)

ForInc(next, g, condition_block, lcond) ==
  IF g.raised # "" THEN g ELSE
   BranchTo(emit(visit_opt(next, g), Jump(lcond)), condition_block)

ForEnd(g, condition_block, end_block, lend) ==
  IF g.raised # "" THEN g ELSE
   Enter(AddPred(ChainTo(g, end_block), end_block, condition_block), end_block, lend)

visit_For(n, g) ==
  LET lcond == make_label(g, "for.cond")
      linc == make_label(lcond.g, "for.inc")
      lbody == make_label(linc.g, "for.body")
      lend == make_label(lbody.g, "for.end")
      condition_block == NewBlockId(lend.g)
      g1 == NewBlock(lend.g, "ConditionBlock", lcond.r)
      inc_block == NewBlockId(g1)
      g2 == NewBlock(g1, "BasicBlock", linc.r)
      body_block == NewBlockId(g2)
      g3 == NewBlock(g2, "BasicBlock", lbody.r)
      end_block == NewBlockId(g3)
      g4 == NewBlock(g3, "BasicBlock", lend.r)
  IN PopLoop(ForEnd(
       ForInc(n.c[3],
         ForBody(n.c[4],
           ForCond(n.c[2],
             visit_opt(n.c[1], PushLoop(g4, end_block)),
             condition_block, lcond.r, body_block, lbody.r, end_block, lend.r),
           inc_block, linc.r),
         condition_block, lcond.r),
       condition_block, end_block, lend.r))

\* NodeVisitor.visit: dispatch on the class name of the node.  (The test
\* on g makes the evaluator finish the steps before the call first.)
visit(n, g) ==
  IF g.current_block = None THEN g ELSE
  CASE n.k = "Constant" -> visit_Constant(n, g)
    [] n.k = "ID" -> visit_ID(n, g)
    [] n.k = "BinaryOp" -> visit_BinaryOp(n, g)
    [] n.k = "UnaryOp" -> visit_UnaryOp(n, g)
    [] n.k = "Assignment" -> visit_Assignment(n, g)
    [] n.k = "Decl" -> visit_Decl(n, g)
    [] n.k = "Print" -> visit_Print(n, g)
    [] n.k = "Read" -> visit_Read(n, g)
    [] n.k = "Break" -> visit_Break(n, g)
    [] n.k = "Return" -> visit_Return(n, g)
    [] n.k = "Assert" -> visit_Assert(n, g)
    [] n.k = "If" -> visit_If(n, g)
    [] n.k = "While" -> visit_While(n, g)
    [] n.k = "For" -> visit_For(n, g)
    [] n.k = "Compound" -> visit_children(n.c, g)
    [] n.k = "EmptyStatement" -> g

\* The parameter temporaries, allocs and stores of visit_FuncDef.
RECURSIVE ParamTemps(_, _)
ParamTemps(params, g) ==
  IF params = <<>> THEN g ELSE ParamTemps(Tail(params), new_temp(g).g)

RECURSIVE ParamAllocs(_, _)
ParamAllocs(params, g) ==
  IF params = <<>> THEN g
  ELSE LET l == make_label(g, Head(params).name)
       IN ParamAllocs(Tail(params),
            [emit(l.g, Inst("alloc", <<Head(params).type>>, <<l.r>>))
               EXCEPT !.location[Head(params).name] = l.r])

RECURSIVE ParamStores(_, _, _)
ParamStores(params, i, g) ==
  IF params = <<>> THEN g
  ELSE ParamStores(Tail(params), i + 1,
         emit(g, Inst("store", <<Head(params).type>>,
                      <<Temp(i), g.location[Head(params).name]>>)))

\* The temporary visit_FuncDef keeps in end_jump: in main, new temporaries
\* are drawn until one is numbered 1 or more.
RECURSIVE EndJump(_, _)
EndJump(fname, g) ==
  LET t == new_temp(g)
  IN IF fname = "main" /\ t.r.n < 1 THEN EndJump(fname, t.g)
     ELSE [t.g EXCEPT !.end_jump = t.r]

\* self.ret_target = self.new_temp(type) if the function returns a value
RetTarget(g, type) ==
  IF type # "void"
  THEN LET t == new_temp(g) IN [t.g EXCEPT !.ret_target = t.r]
  ELSE [g EXCEPT !.ret_target = NoOpnd]

\* self.ret_block = BasicBlock(exit_label); l is what make_label returned
NewExitBlock(l) ==
  [NewBlock(l.g, "BasicBlock", l.r) EXCEPT !.ret_block = NewBlockId(l.g)]

\* if the body does not end with the jump to exit, the jump is appended
CloseBody(g, lx) ==
  IF g.raised # "" THEN g ELSE
   IF LastInst(g) # Jump(lx)
  THEN AddPred(emit(g, Jump(lx)), g.ret_block, Cur(g))
  ELSE g

\* current.next_block = ret_block; current.branch = ret_block
LinkExit(g) == SetBranch(SetNext(g, Cur(g), g.ret_block), Cur(g), g.ret_block)

\* The exit block: its label, the load of the return value, the return.
FinalReturn(g, type) ==
  IF g.raised # "" THEN g ELSE
   LET final_ret == new_temp([g EXCEPT !.current_block = g.ret_block])
      g14 == emit(final_ret.g, LabelInst(g.heap[g.ret_block].label))
  IN IF type # "void"
     THEN emit(emit(g14, Inst("load", <<type>>, <<g14.ret_target, final_ret.r>>)),
               Inst("return", <<type>>, <<final_ret.r>>))
     ELSE emit(g14, Inst("return", <<type>>, <<>>))

\* The entry block of visit_FuncDef with the define instruction; g1 has
\* the head block in cfg.
FuncEntry(n, g1) ==
  LET head == g1.cfg
      le == make_label(g1, "entry")
      entry_block == NewBlockId(le.g)
      g2 == NewBlockL(le, "BasicBlock")
  IN emit(AddPred(SetNext(SetBranch([g2 EXCEPT !.current_block = entry_block],
                                    head, entry_block),
                          head, entry_block),
                  entry_block, head),
          Inst("define", <<>>, <<Glob(n.name)>>))

\* The temporaries of the parameters, the return target, the exit block,
\* the allocs and stores of the parameters and end_jump; g4 is the
\* generator after the define instruction.
FuncExit(n, g4) ==
  IF g4.raised # "" THEN g4 ELSE
   EndJump(n.name,
    ParamStores(n.c[1].c, g4.versions,
      ParamAllocs(n.c[1].c,
        NewExitBlock(make_label(RetTarget(ParamTemps(n.c[1].c, g4), n.type),
                                "exit")))))

\* The body is visited and linked to the exit block.
FuncBody(n, g9) ==
  IF g9.raised # "" THEN g9 ELSE
   LinkExit(CloseBody(visit(n.c[2], g9), g9.heap[g9.ret_block].label))

visit_FuncDef(n, g) ==
  FinalReturn(
    FuncBody(n,
      FuncExit(n, FuncEntry(n, [NewBlock(g, "BasicBlock", NoOpnd)
                                  EXCEPT !.cfg = NewBlockId(g)]))),
    n.type)

(***************************************************************************)
(* Views of the CFG                                                        *)
(***************************************************************************)

\* The blocks reached from b by next_block, in order (the walk
\* 'while isinstance(block, Block): ... block = block.next_block').
RECURSIVE ChainFrom(_, _, _)
ChainFrom(g, b, fuel) ==
  IF b = None \/ fuel = 0 THEN <<>>
  ELSE <<b>> \o ChainFrom(g, g.heap[b].next_block, fuel - 1)
Chain(g) == ChainFrom(g, g.cfg, Len(g.heap))

Range(f) == {f[i] : i \in DOMAIN f}

\* The successor slots of a block that hold a block.
Succs(g, b) ==
  IF g.heap[b].kind = "BasicBlock" THEN {g.heap[b].branch} \ {None}
  ELSE {g.heap[b].taken, g.heap[b].fall_through} \ {None}

\* The blocks reachable from b by successor edges.
RECURSIVE ReachFrom(_, _, _)
ReachFrom(g, seen, front) ==
  IF front = {} THEN seen
  ELSE LET nxt == UNION {Succs(g, b) : b \in front} \ seen
       IN ReachFrom(g, seen \cup nxt, nxt)
Reachable(g) == ReachFrom(g, {g.cfg}, {g.cfg})

(***************************************************************************)
(* Instruction classification and the dataflow analyses                    *)
(***************************************************************************)
BinaryFamilies == {"add", "sub", "mul", "div", "mod", "lt", "le", "ge", "gt",
                   "eq", "ne", "and", "or"}

\* The regular expressions of instruction_analisys, on the opcode
\* <f>_<s[1]>_..._<s[n]>.  '(?!void)' holds of a first suffix that does not
\* start with void.
definition_re(i) ==
  \/ /\ i.f \in {"load", "store", "literal", "elem", "get", "not", "read",
                 "alloc"} \cup BinaryFamilies
     /\ i.s # <<>>
  \/ i.f \in {"fptosi", "sitofp", "call"}
uses_1_re(i) ==
  \/ /\ i.f \in {"load", "store", "get", "return", "param", "print", "not"}
     /\ i.s # <<>>
     /\ i.s[1] # "void"
  \/ i.f \in {"fptosi", "sitofp", "call"}
uses_2_re(i) == i.f \in {"elem"} \cup BinaryFamilies /\ i.s # <<>>
uses_3_re(i) == i.f = "cbranch"

\* inst[-1] of a tuple with at least one argument
LastArg(i) == i.args[Len(i.args)]

\* The dict instruction_analisys makes for one instruction.
CodeObj(label, i) ==
  LET def == IF definition_re(i) THEN {LastArg(i)} ELSE {}
      use == IF uses_1_re(i) THEN {i.args[1]}
             ELSE IF uses_2_re(i) THEN {i.args[1], i.args[2]}
             ELSE IF uses_3_re(i) THEN {i.args[1]}
             ELSE {}
  IN [label |-> label, inst |-> i, def |-> def,
      use |-> IF i.f = "store" /\ i.s # <<>> THEN use \cup def ELSE use,
      alive |-> TRUE]

\* The dict object d.  objs holds every dict instruction_analisys has made,
\* also those that only a block outside the chain still refers to; the
\* lists self.code_obj and block.code_obj hold positions in objs.
Obj(g, d) == g.objs[d]

\* Every block of the chain gets new, empty lists and sets; shared is the
\* set of blocks whose la_out is the very set object self.global_vars.
reset_analisys(g) ==
  [g EXCEPT !.code_obj = <<>>, !.label = 0,
            !.shared = @ \ Range(Chain(g)),
            !.heap = List([b \in DOMAIN g.heap |->
               IF b \in Range(Chain(g))
               THEN [g.heap[b] EXCEPT !.code_obj = <<>>,
                       !.rd_gen = {}, !.rd_kill = {}, !.rd_in = {}, !.rd_out = {},
                       !.la_def = {}, !.la_use = {}, !.la_in = {}, !.la_out = {}]
               ELSE g.heap[b]], Len(g.heap))]

\* The body of the loops of instruction_analisys for instruction i of block b.
ClassifyInst(g, b, i) ==
  [g EXCEPT !.label = @ + 1,
            !.objs = Append(@, CodeObj(g.label, i)),
            !.code_obj = Append(@, Len(g.objs) + 1),
            !.heap[b].code_obj = Append(@, Len(g.objs) + 1)]

instruction_analisys(g) ==
  ForEach(LAMBDA g1, b :
            ForEach(LAMBDA g2, i : ClassifyInst(g2, b, i), g1, g1.heap[b].instructions),
          reset_analisys(g), Chain(g))

\* [node.taken, node.fall_through] of a ConditionBlock, [node.branch] of a
\* BasicBlock.
SuccList(g, b) ==
  IF g.heap[b].kind = "ConditionBlock"
  THEN <<g.heap[b].taken, g.heap[b].fall_through>>
  ELSE <<g.heap[b].branch>>

\* The worklist loops run until the list is empty; MaxRounds(g) rounds
\* are more than a loop that ends needs for the graphs of the inputs, and a
\* loop that has not ended by then is recorded as not ending.
MaxRounds(g) == 64 * (Len(g.heap) + 1)
Diverged(st) ==
  IF st.nodes = <<>> THEN st.g ELSE [st.g EXCEPT !.raised = "diverged"]

\* {x['label'] for x in self.code_obj if x['def'] == inst['def']} - {inst['label']}
KillOf(g, d) ==
  {Obj(g, k).label : k \in {k \in Range(g.code_obj) : Obj(g, k).def = Obj(g, d).def}}
    \ {Obj(g, d).label}

\* The gen/kill loop of reaching_definitions for the dict d of block b.
GenKill(g, b, d) ==
  IF Obj(g, d).def = {} THEN g
  ELSE LET gen_n == {Obj(g, d).label}
           kill_n == KillOf(g, d)
       IN [g EXCEPT !.heap[b].rd_gen = gen_n \cup (@ \ kill_n),
                    !.heap[b].rd_kill = @ \cup kill_n]

\* The test that re-queues: a round that is taken to change its block
\* whatever it computed.
AlwaysChanged(old, new) == TRUE

\* if old != node.rd_out; if old_in != node.la_in;
\* if len(new_instructions) != len(old_instructions)
Changed(old, new) == old # new

\* One round of the worklist loop of reaching_definitions: nodes.pop(0).
RdRound(st) ==
  LET g == st.g
      n == Head(st.nodes)
      old == g.heap[n].rd_out
      rd_in == UNION {g.heap[p].rd_out : p \in Range(Preds(g, n))}
      rd_out == g.heap[n].rd_gen \cup (rd_in \ g.heap[n].rd_kill)
  IN [g |-> [g EXCEPT !.heap[n].rd_in = rd_in, !.heap[n].rd_out = rd_out],
      nodes |-> IF Changed(old, rd_out)
                THEN ForEach(LAMBDA ns, s : IF s # None /\ s \notin Range(ns)
                                            THEN Append(ns, s) ELSE ns,
                             Tail(st.nodes), SuccList(g, n))
                ELSE Tail(st.nodes)]

\* The first loop of reaching_definitions: gen and kill of every block.
RdGenKill(g) ==
  ForEach(LAMBDA ga, b :
            ForEach(LAMBDA gb, d : GenKill(gb, b, d), ga, ga.heap[b].code_obj),
          g, Chain(g))

reaching_definitions(g) ==
  Diverged(Iterate(RdRound, LAMBDA st : st.nodes = <<>>,
                   [g |-> RdGenKill(g), nodes |-> Chain(g)], MaxRounds(g)))

\* The use/def loop of liveness_analisys for the dict d of block b.
UseDef(g, b, d) ==
  [g EXCEPT !.heap[b].la_use = Obj(g, d).use \cup (@ \ Obj(g, d).def),
            !.heap[b].la_def = Obj(g, d).def \cup @]

\* node.la_out |= s left out: la_out stays as it was.
UnionLaOutSkipped(g, n, s) == g

\* node.la_out |= s: the set object is changed in place, so through every
\* name it has.
UnionLaOut(g, n, s) ==
  IF n \in g.shared
  THEN [g EXCEPT !.global_vars = @ \cup s,
                 !.heap = List([b \in DOMAIN g.heap |->
                            IF b \in g.shared
                            THEN [g.heap[b] EXCEPT !.la_out = g.global_vars \cup s]
                            ELSE g.heap[b]], Len(g.heap))]
  ELSE [g EXCEPT !.heap[n].la_out = @ \cup s]

\* One round of the worklist loop of liveness_analisys: nodes.pop(-1).
LaRound(st) ==
  LET n == st.nodes[Len(st.nodes)]
      rest == SubSeq(st.nodes, 1, Len(st.nodes) - 1)
      g1 == ForEach(LAMBDA ga, s : IF s # None THEN UnionLaOut(ga, n, ga.heap[s].la_in)
                                   ELSE ga,
                    st.g, SuccList(st.g, n))
      old_in == g1.heap[n].la_in
      la_in == g1.heap[n].la_use \cup (g1.heap[n].la_out \ g1.heap[n].la_def)
  IN [g |-> [g1 EXCEPT !.heap[n].la_in = la_in],
      nodes |-> IF Changed(old_in, la_in)
                THEN ForEach(LAMBDA ns, p : IF p # None /\ p \notin Range(ns)
                                            THEN <<p>> \o ns ELSE ns,
                             rest, Preds(g1, n))
                ELSE rest]

\* The first loop of liveness_analisys: use and def of every block.
LaUseDef(g) ==
  ForEach(LAMBDA ga, b :
            ForEach(LAMBDA gb, d : UseDef(gb, b, d), ga,
                    Reverse(ga.heap[b].code_obj)),
          g, Chain(g))

\* nodes[-1].la_out = self.global_vars
LaSeed(g, last) ==
  [g EXCEPT !.heap[last].la_out = g.global_vars, !.shared = @ \cup {last}]

\* The loops of liveness_analisys before its worklist loop.
LaPrelude(g) == LaSeed(LaUseDef(g), Chain(g)[Len(Chain(g))])

liveness_analisys(g) ==
  Diverged(Iterate(LaRound, LAMBDA st : st.nodes = <<>>,
                   [g |-> LaPrelude(g), nodes |-> Chain(g)], MaxRounds(g)))

(***************************************************************************)
(* The optimizer passes.  An exception leaves its name in raised and the   *)
(* objects as they were when it was raised.                                *)
(***************************************************************************)
Raise(g, name) == [g EXCEPT !.raised = name]

\* {x['inst'] for x in self.code_obj if x['label'] in current_in and x['def'] == {param}}
DefsOf(g, current_in, param) ==
  {Obj(g, k).inst : k \in {k \in Range(g.code_obj) :
                             Obj(g, k).label \in current_in /\ Obj(g, k).def = {param}}}

\* The one element of a set with one element.
TheOne(S) == CHOOSE e \in S : TRUE

\* for i in block.code_obj: if i['label'] == label:
\*     idx = block.instructions.index(i['inst']); block.instructions[idx] = new_inst
\*     i['inst'] = new_inst; break
Rewrite(g, b, label, new_inst) ==
  LET hits == SelectSeq(g.heap[b].code_obj, LAMBDA k : Obj(g, k).label = label)
  IN IF g.raised # "" \/ hits = <<>> THEN g
     ELSE LET idx == Index(g.heap[b].instructions, Obj(g, hits[1]).inst)
          IN IF idx = 0 THEN Raise(g, "ValueError")
             ELSE [g EXCEPT !.heap[b].instructions[idx] = new_inst,
                            !.objs[hits[1]].inst = new_inst]

\* re.match(r'(load|store)_[^_]+$', op), and with [^_]* for the last part
LoadStoreRe(i) == i.f \in {"load", "store"} /\ Len(i.s) = 1
\* re.match(r'(add|sub|mul|div|mod|lt|le|ge|gt|eq|ne|and|or)_*', op): the
\* opcode starts with one of the names, as get_<type> does with ge.
BinaryRe(i) == i.f \in BinaryFamilies \cup {"get"}
\* re.match(r'(not|return)_(?!void).*$|fptosi|sitofp|param', op)
UnaryRe(i) ==
  \/ i.f \in {"not", "return"} /\ i.s # <<>> /\ i.s[1] # "void"
  \/ i.f \in {"fptosi", "sitofp", "param"}

\* list(t) with element pos (1 = the first argument) set to v
SetArg(i, pos, v) == [i EXCEPT !.args[pos] = v]

\* if store_re.match(def_inst[0]): the copy of the definition is renamed
\* load_<type>
CpRenamed(def_inst) ==
  IF def_inst.f = "store" /\ def_inst.s # <<>>
  THEN [def_inst EXCEPT !.f = "load"] ELSE def_inst

\* new_inst[-1] = old_inst[-1]
CpNewInst(renamed, old_inst) ==
  SetArg(renamed, Len(renamed.args), LastArg(old_inst))

\* A copy propagation that finds the copy and writes nothing.
CpRewriteNothing(g, b, label, old_inst, new_inst) == g

\* What the branch of copy_propagation for loads and stores writes once
\* new_inst is built from the one definition that reaches.
CpRewrite(g, b, label, old_inst, new_inst) ==
  LET is_read == new_inst.f = "read" /\ new_inst.s # <<>>
      swapped == [old_inst EXCEPT !.args[1] = LastArg(old_inst),
                                  !.args[Len(old_inst.args)] = old_inst.args[1]]
      last_inst == IF is_read THEN swapped ELSE new_inst
      g2 == IF is_read
            THEN Rewrite(Rewrite(g, b, label - 1, new_inst), b, label, swapped)
            ELSE g
  IN IF new_inst.f = "load" /\ new_inst.s # <<>> /\ new_inst.args[1].k # "temp"
     THEN g
     ELSE IF (last_inst.f \in {"alloc", "read", "elem"} /\ last_inst.s # <<>>)
             \/ last_inst.f = "call"
     THEN g2
     ELSE Rewrite(g2, b, label, last_inst)

\* The (load|store) part of the loop body of copy_propagation, for the
\* dict d of block b.
CpLoadStore(g, b, d, current_in) ==
  LET old_inst == Obj(g, d).inst
      defs == DefsOf(g, current_in, old_inst.args[1])
  IN IF ~LoadStoreRe(old_inst) \/ Cardinality(defs) # 1 THEN g
     ELSE CpRewrite(g, b, Obj(g, d).label, old_inst,
                    CpNewInst(CpRenamed(TheOne(defs)), old_inst))

\* new_inst[pos] = def_inst[1] when the one definition of the operand that
\* reaches is a load or a store
Propagated(g, current_in, new_inst, pos) ==
  LET defs == DefsOf(g, current_in, Obj(g, new_inst.d).inst.args[pos])
  IN IF Cardinality(defs) = 1 /\ LoadStoreRe(TheOne(defs))
     THEN SetArg(new_inst.i, pos, TheOne(defs).args[1])
     ELSE new_inst.i

\* The parts of the loop body for binary operations, for not, return,
\* param and the casts, and for elem.
CpOperands(g, b, d, current_in, positions) ==
  LET inst == Obj(g, d)
      new_inst == ForEach(LAMBDA i, pos : Propagated(g, current_in, [d |-> d, i |-> i], pos),
                          inst.inst, positions)
  IN IF Len(inst.inst.args) < positions[Len(positions)] THEN Raise(g, "IndexError")
     ELSE IF new_inst # inst.inst THEN Rewrite(g, b, inst.label, new_inst)
     ELSE g

\* elif inst[0].startswith('elem_')
ElemRe(i) == i.f = "elem" /\ i.s # <<>>

\* One 'if <pattern>.match(...)' of the loop body: the operands at the
\* positions are propagated when the instruction matches.
CpIf(Re(_), positions, g, b, d, current_in) ==
  IF g.raised = "" /\ Re(Obj(g, d).inst)
  THEN CpOperands(g, b, d, current_in, positions) ELSE g

\* The end of the loop body: current_in follows the instruction.
CpAdvance(g, d, current_in) ==
  [g |-> g,
   current_in |-> IF Obj(g, d).def # {}
                  THEN (current_in \ KillOf(g, d)) \cup {Obj(g, d).label}
                  ELSE current_in]

\* The loop body of copy_propagation for the dict d of block b.
CpInst(st, b, d) ==
  IF st.g.raised # "" THEN st
  ELSE CpAdvance(CpIf(ElemRe, <<2>>,
                   CpIf(UnaryRe, <<1>>,
                     CpIf(BinaryRe, <<1, 2>>,
                       CpLoadStore(st.g, b, d, st.current_in),
                       b, d, st.current_in),
                     b, d, st.current_in),
                   b, d, st.current_in),
                 d, st.current_in)

copy_propagation(g) ==
  ForEach(LAMBDA ga, b :
            ForEach(LAMBDA st, d : CpInst(st, b, d),
                    [g |-> ga, current_in |-> ga.heap[b].rd_in],
                    ga.heap[b].code_obj).g,
          g, Chain(g))

(***************************************************************************)
(* Constant folding.  The values of the literals of the inputs are         *)
(* integers; a float literal and the true division of div_float are not    *)
(* modelled.                                                               *)
(***************************************************************************)
\* re.match(r'(add|sub|mul|div|mod|lt|le|ge|gt|eq|ne|and|or)_(?!void)(.*)', op)
FoldRe(i) == i.f \in BinaryFamilies /\ i.s # <<>> /\ i.s[1] # "void"

\* The name of the function of the module operator that is looked up for
\* the opcode: div is floordiv for int (truediv for float), and is and_; the
\* other names are the families themselves.
OperatorName(i) ==
  CASE i.f = "div" /\ i.s = <<"float">> -> "truediv"
    [] i.f = "div" /\ i.s = <<"int">> -> "floordiv"
    [] i.f = "and" -> "and_"
    [] OTHER -> i.f

\* The quotient rounded towards zero, b # 0.
TruncDiv(a, b) ==
  IF (a >= 0) = (b > 0) THEN (IF a >= 0 THEN a \div b ELSE (0 - a) \div (0 - b))
  ELSE 0 - (IF a >= 0 THEN a \div (0 - b) ELSE (0 - a) \div b)

\* Python's a // b and a % b on integers, b # 0: the quotient is rounded
\* down and the remainder has the sign of b.
FloorDiv(a, b) ==
  IF b > 0 THEN a \div b ELSE (0 - a) \div (0 - b)
PyMod(a, b) == a - b * FloorDiv(a, b)

\* Python's a & b on integers.
RECURSIVE BitAnd(_, _)
BitAnd(a, b) ==
  IF a = 0 \/ b = 0 THEN 0
  ELSE IF a = 0 - 1 THEN b
  ELSE IF b = 0 - 1 THEN a
  ELSE (a % 2) * (b % 2) + 2 * BitAnd(a \div 2, b \div 2)

\* getattr(operator, op)(a, b) on two integers: raised is the exception, or
\* "", bool tells whether the result is a bool, val is the result (a bool
\* as 1 or 0).  The module operator has no attribute 'or'.
Operate(op, a, b) ==
  LET Num(v) == [raised |-> "", bool |-> FALSE, val |-> v]
      Bool(t) == [raised |-> "", bool |-> TRUE, val |-> IF t THEN 1 ELSE 0]
      Exc(e) == [raised |-> e, bool |-> FALSE, val |-> 0]
  IN CASE op = "add" -> Num(a + b)
       [] op = "sub" -> Num(a - b)
       [] op = "mul" -> Num(a * b)
       [] op = "floordiv" -> IF b = 0 THEN Exc("ZeroDivisionError") ELSE Num(FloorDiv(a, b))
       [] op = "mod" -> IF b = 0 THEN Exc("ZeroDivisionError") ELSE Num(PyMod(a, b))
       [] op = "and_" -> Num(BitAnd(a, b))
       [] op = "lt" -> Bool(a < b)
       [] op = "le" -> Bool(a <= b)
       [] op = "gt" -> Bool(a > b)
       [] op = "ge" -> Bool(a >= b)
       [] op = "eq" -> Bool(a = b)
       [] op = "ne" -> Bool(a # b)
       [] op = "or" -> Exc("AttributeError")

\* ('eq_%s' % type, inst[1], inst[1], inst[-1]) if the value is true, else
\* the same with ne_.
Canonical(i, true) ==
  Inst(IF true THEN "eq" ELSE "ne", i.s, <<i.args[1], i.args[1], LastArg(i)>>)

\* re.compile(r'literal_.*') and re.compile(r'(eq|ne)_.*'), matched on the
\* opcode of a definition.
literal_re(i) == i.f = "literal" /\ i.s # <<>>
bool_re(i) == i.f \in {"eq", "ne"} /\ i.s # <<>>

\* The new instruction for inst when both definitions are literals and the
\* operator gave res.
FoldedLiteral(i, res) ==
  IF ~res.bool THEN Inst("literal", i.s, <<Lit(res.val), LastArg(i)>>)
  ELSE Canonical(i, res.val = 1)

\* The branch of constant_folding for two literal definitions.
FoldLiterals(g, b, d, def_inst1, def_inst2) ==
  LET res == Operate(OperatorName(Obj(g, d).inst), def_inst1.args[1].n,
                     def_inst2.args[1].n)
  IN IF res.raised # "" THEN Raise(g, res.raised)
     ELSE Rewrite(g, b, Obj(g, d).label, FoldedLiteral(Obj(g, d).inst, res))

\* b1 = def_inst[0].startswith('eq'), as the integer Python computes with
Truth(def_inst) == IF def_inst.f = "eq" THEN 1 ELSE 0

\* The branch of constant_folding for two definitions that are eq or ne
\* instructions.
FoldBools(g, b, d, def_inst1, def_inst2) ==
  LET res == Operate(OperatorName(Obj(g, d).inst), Truth(def_inst1), Truth(def_inst2))
  IN IF def_inst1.args[1] # def_inst1.args[2] \/ def_inst2.args[1] # def_inst2.args[2]
     THEN g
     ELSE IF res.raised # "" THEN Raise(g, res.raised)
     ELSE Rewrite(g, b, Obj(g, d).label, Canonical(Obj(g, d).inst, res.val # 0))

\* The branch 'if matches' of the loop body once the sets of definitions
\* of the two operands are known.
FoldBinary(g, b, d, defs1, defs2) ==
  IF Cardinality(defs1) # 1 \/ Cardinality(defs2) # 1 THEN g
  ELSE IF literal_re(TheOne(defs1)) /\ literal_re(TheOne(defs2))
  THEN FoldLiterals(g, b, d, TheOne(defs1), TheOne(defs2))
  ELSE IF bool_re(TheOne(defs1)) /\ bool_re(TheOne(defs2))
  THEN FoldBools(g, b, d, TheOne(defs1), TheOne(defs2))
  ELSE g

\* The branch "elif inst['inst'][0] == 'not_bool'" once the set of
\* definitions of the operand is known.
FoldNot(g, b, d, defs1) ==
  IF Cardinality(defs1) # 1 THEN g
  ELSE IF bool_re(TheOne(defs1)) /\ TheOne(defs1).args[1] = TheOne(defs1).args[2]
  THEN Rewrite(g, b, Obj(g, d).label,
               Inst(IF TheOne(defs1).f # "eq" THEN "eq" ELSE "ne", <<"bool">>,
                    <<Obj(g, d).inst.args[1], Obj(g, d).inst.args[1],
                      LastArg(Obj(g, d).inst)>>))
  ELSE g

\* The two branches of the loop body of constant_folding for the dict d of
\* block b.
FoldInst(g, b, d, current_in) ==
  IF FoldRe(Obj(g, d).inst)
  THEN FoldBinary(g, b, d, DefsOf(g, current_in, Obj(g, d).inst.args[1]),
                  DefsOf(g, current_in, Obj(g, d).inst.args[2]))
  ELSE IF Obj(g, d).inst.f = "not" /\ Obj(g, d).inst.s = <<"bool">>
  THEN FoldNot(g, b, d, DefsOf(g, current_in, Obj(g, d).inst.args[1]))
  ELSE g

\* The loop body of constant_folding with its last lines, where current_in
\* follows the instruction.
CfInst(st, b, d) ==
  IF st.g.raised # "" THEN st
  ELSE CpAdvance(FoldInst(st.g, b, d, st.current_in), d, st.current_in)

constant_folding(g) ==
  ForEach(LAMBDA ga, b :
            ForEach(LAMBDA st, d : CfInst(st, b, d),
                    [g |-> ga, current_in |-> ga.heap[b].rd_in],
                    ga.heap[b].code_obj).g,
          g, Chain(g))

\* changeBlockToBasic: the ConditionBlock is replaced by a new BasicBlock
\* object that shares its instructions and predecessors and goes to taken
\* if result, else to fall_through.
changeBlockToBasic(g, block, result) ==
  LET new == NewBlockId(g)
      ob == g.heap[block]
      g1 == [g EXCEPT !.heap = Append(@,
                [Block("BasicBlock", ob.label, ob.pl)
                   EXCEPT !.instructions = ob.instructions])]
      g2 == SetNext(g1, new, ob.next_block)
      g3 == SetBranch(g2, new, IF result THEN ob.taken ELSE ob.fall_through)
      g4 == SetNextIf(g3, ob.prev_block, new)
  IN IF ob.kind # "ConditionBlock"
     THEN [g |-> Raise(SetNext(g1, new, ob.next_block), "AttributeError"), r |-> block]
     ELSE [g |-> RedirectAll(g4, block, new), r |-> new]

\* The rewrite of the cbranch old_inst into a jump, once
\* changeBlockToBasic has returned cb.
BfJump(st, old, d, old_inst, cb) ==
  LET new == cb.r
      target == cb.g.heap[new].branch
      new_inst == Jump(cb.g.heap[target].label)
      idx == Index(cb.g.heap[new].instructions, old_inst)
      \* the list is also the instructions of the block walked, if that is
      \* the block replaced
      shared_list == IF old = st.block
                     THEN [cb.g.heap[new].instructions EXCEPT ![idx] = new_inst]
                     ELSE cb.g.heap[old].instructions
  IN IF cb.g.raised # "" THEN [st EXCEPT !.g = cb.g]
     ELSE IF target = None
     THEN [st EXCEPT !.g = Raise(cb.g, "AttributeError"), !.block = new]
     ELSE IF idx = 0
     THEN [st EXCEPT !.g = Raise(cb.g, "ValueError"), !.block = new]
     ELSE [st EXCEPT !.block = new,
             !.g = [cb.g EXCEPT !.heap[new].instructions[idx] = new_inst,
                                !.heap[old].instructions = shared_list,
                                !.objs[d].inst = new_inst]]

\* if def_inst[1] == def_inst[2]: the block is changed, to its taken arm
\* when def_inst[0][:2] == 'eq'
BfSame(st, old, d, old_inst, def_inst) ==
  IF Len(def_inst.args) < 2 THEN [st EXCEPT !.g = Raise(st.g, "IndexError")]
  ELSE IF def_inst.args[1] # def_inst.args[2] THEN st
  ELSE BfJump(st, old, d, old_inst,
              changeBlockToBasic(st.g, st.block, def_inst.f = "eq"))

\* The cbranch part of the loop body of branch_folding: st.block is the
\* variable block, old the block whose code_obj is being walked.
BfFold(st, old, d) ==
  LET old_inst == Obj(st.g, d).inst
      defs == DefsOf(st.g, st.current_in, old_inst.args[1])
  IN IF old_inst.f # "cbranch" \/ old_inst.s # <<>> \/ Cardinality(defs) # 1 THEN st
     ELSE BfSame(st, old, d, old_inst, TheOne(defs))

\* The end of the loop body: current_in follows the instruction.
BfAdvance(st1, d) ==
  IF st1.g.raised = "" /\ Obj(st1.g, d).def # {}
  THEN [st1 EXCEPT !.current_in = {Obj(st1.g, d).label} \cup (@ \ KillOf(st1.g, d))]
  ELSE st1

\* The loop body of branch_folding for the dict d.
BfInst(st, old, d) ==
  IF st.g.raised # "" THEN st ELSE BfAdvance(BfFold(st, old, d), d)

\* block = block.next_block
BfNext(st1) ==
  [g |-> st1.g,
   block |-> IF st1.g.raised # "" THEN None
             ELSE st1.g.heap[st1.block].next_block]

\* The body of the while loop of branch_folding for the block st.block.
BfBlock(st) ==
  BfNext(ForEach(LAMBDA sa, d : BfInst(sa, st.block, d),
                 [g |-> st.g, block |-> st.block,
                  current_in |-> st.g.heap[st.block].rd_in],
                 st.g.heap[st.block].code_obj))

branch_folding(g) ==
  Iterate(BfBlock, LAMBDA st : st.block = None,
          [g |-> g, block |-> g.cfg], Len(g.heap)).g

\* A may_kill_re that matches every opcode.
may_kill_any(i) == TRUE

\* may_kill_re of deadcode_elimination
may_kill_re(i) ==
  \/ /\ i.f \in {"alloc", "load", "store", "literal", "elem", "get", "not"}
                  \cup BinaryFamilies
     /\ Len(i.s) = 1
  \/ i.f \in {"fptosi", "sitofp"}

\* list.remove(inst) on a list of dicts: the first dict equal to dict d
\* (dicts compare by their items); 0 if there is none.
IndexObj(g, list, d) ==
  IF \E j \in 1..Len(list) : Obj(g, list[j]) = Obj(g, d)
  THEN CHOOSE j \in 1..Len(list) :
         /\ Obj(g, list[j]) = Obj(g, d)
         /\ \A k \in 1..(j - 1) : Obj(g, list[k]) # Obj(g, d)
  ELSE 0
RemoveAt(list, j) == SubSeq(list, 1, j - 1) \o SubSeq(list, j + 1, Len(list))

\* The marking loop of deadcode_elimination for the dict d.
DceMark(st, d) ==
  LET o == Obj(st.g, d)
      dead == /\ may_kill_re(o.inst)
              /\ o.def \cap st.current_out = {}
              /\ ~(o.inst.f = "alloc" /\ o.inst.s # <<>> /\ o.def \cap st.used_vars # {})
      alive == IF may_kill_re(o.inst) /\ o.def \cap st.current_out = {}
               THEN ~dead ELSE o.alive
  IN [g |-> [st.g EXCEPT !.objs[d].alive = alive],
      current_out |-> IF alive THEN o.use \cup (st.current_out \ o.def)
                      ELSE st.current_out,
      used_vars |-> IF alive /\ o.def # {} /\ TheOne(o.def).k # "temp"
                    THEN st.used_vars \cup o.def ELSE st.used_vars]

\* The removal loop of deadcode_elimination for the dict d of
\* self.code_obj.copy(), block being the block at hand.
DceRemove(g, block, d) ==
  LET j == IndexObj(g, g.heap[block].code_obj, d)
      k == IndexObj(g, g.code_obj, d)
  IN IF g.raised # "" \/ Obj(g, d).alive THEN g
     ELSE IF j = 0 THEN Raise(g, "ValueError")
     ELSE [g EXCEPT !.heap[block].code_obj = RemoveAt(@, j),
                    !.code_obj = RemoveAt(@, k)]


\* current_out = block.la_out.copy()
DceLiveOut(g, block) == g.heap[block].la_out

\* One round of the worklist loop of deadcode_elimination: nodes.pop(-1).
DceRound(st) ==
  LET block == st.nodes[Len(st.nodes)]
      rest == SubSeq(st.nodes, 1, Len(st.nodes) - 1)
      m == ForEach(DceMark, [g |-> st.g, current_out |-> DceLiveOut(st.g, block),
                             used_vars |-> {}],
                   Reverse(st.g.heap[block].code_obj))
      g1 == ForEach(LAMBDA ga, d : DceRemove(ga, block, d), m.g, m.g.code_obj)
      new_instructions ==
        List([j \in 1..Len(g1.heap[block].code_obj) |->
                Obj(g1, g1.heap[block].code_obj[j]).inst], Len(g1.heap[block].code_obj))
      old_instructions == st.g.heap[block].instructions
      g2 == [g1 EXCEPT !.heap[block].instructions = new_instructions]
      preds == Preds(g1, block)
  IN Steps(<<m, g1,
     IF g1.raised # "" THEN [g |-> g1, nodes |-> <<>>]
     ELSE [g |-> g2,
           nodes |-> IF Changed(Len(old_instructions), Len(new_instructions))
                     THEN ForEach(LAMBDA ns, p : IF p # None /\ p \notin Range(ns)
                                                 THEN <<p>> \o ns ELSE ns,
                                  rest, preds)
                     ELSE rest]>>)

deadcode_elimination(g) ==
  Diverged(Iterate(DceRound, LAMBDA st : st.nodes = <<>>,
                   [g |-> g, nodes |-> Chain(g)], MaxRounds(g)))

\* The breadth-first marking of block_removal and merge_basic_blocks:
\* a successor is appended unless it is None, in the list, or visited.
Enqueue(g, nodes, b) ==
  ForEach(LAMBDA ns, s : IF s # None /\ s \notin Range(ns) /\ ~g.heap[s].visited
                         THEN Append(ns, s) ELSE ns,
          nodes, SuccList(g, b))

\* One round of the first loop of block_removal: nodes.pop(0).
BrVisit(st) ==
  LET n == Head(st.nodes)
      g1 == [st.g EXCEPT !.heap[n].visited = TRUE]
  IN [g |-> g1, nodes |-> Enqueue(g1, Tail(st.nodes), n)]

\* self.code_obj.remove(inst)
RemoveCodeObj(g, d) ==
  LET k == IndexObj(g, g.code_obj, d)
  IN IF g.raised # "" THEN g
     ELSE IF k = 0 THEN Raise(g, "ValueError")
     ELSE [g EXCEPT !.code_obj = RemoveAt(@, k)]

\* target.predecessors.remove(block)
RemovePred(g, target, block) ==
  LET j == Index(Preds(g, target), block)
  IN IF j = 0 THEN Raise(g, "ValueError")
     ELSE [g EXCEPT !.plists[g.heap[target].pl] = RemoveAt(@, j)]

\* The body of the second loop of block_removal for a block that was not
\* visited.
BrUnlink(g, old_block, block) ==
  LET B == g.heap[block]
      g1 == ForEach(RemoveCodeObj, g, B.code_obj)
      g2 == IF old_block # None
            THEN [g1 EXCEPT !.heap[old_block].next_block = B.next_block] ELSE g1
  IN IF g1.raised # "" THEN g1
     ELSE IF B.kind = "BasicBlock" /\ B.branch # None
     THEN RemovePred(g2, B.branch, block)
     ELSE IF B.kind = "BasicBlock" THEN Raise(g2, "AttributeError")
     ELSE IF B.taken # None THEN RemovePred(g2, B.taken, block)
     ELSE IF B.fall_through # None THEN RemovePred(g2, B.fall_through, block)
     ELSE Raise(g2, "AttributeError")

\* One round of the second loop of block_removal.
BrBlock(st) ==
  LET g1 == IF st.g.heap[st.block].visited THEN st.g
            ELSE BrUnlink(st.g, st.old_block, st.block)
  IN [g |-> g1,
      old_block |-> IF st.g.heap[st.block].visited THEN st.block ELSE st.old_block,
      block |-> IF g1.raised # "" THEN None ELSE st.g.heap[st.block].next_block]

block_removal(g) ==
  LET g1 == Iterate(BrVisit, LAMBDA st : st.nodes = <<>>,
                    [g |-> g, nodes |-> <<g.cfg>>], MaxRounds(g)).g
  IN Iterate(BrBlock, LAMBDA st : st.block = None,
             [g |-> g1, old_block |-> None, block |-> g.cfg], Len(g.heap)).g

\* The first loop of merge_basic_blocks: visited is cleared and prev_block
\* set along the chain.
MbbRelink(g) ==
  LET chain == Chain(g)
  IN ForEach(LAMBDA ga, i :
               [ga EXCEPT !.heap[chain[i]].visited = FALSE,
                          !.heap[chain[i]].prev_block =
                             IF i = 1 THEN None ELSE chain[i - 1]],
             g, List([i \in 1..Len(chain) |-> i], Len(chain)))

\* for pred in block.predecessors: the successor slot of pred is pointed
\* at target.
MbbRedirect(g, block, target) ==
  ForEach(LAMBDA ga, p :
            IF ga.heap[p].kind = "BasicBlock" THEN [ga EXCEPT !.heap[p].branch = target]
            ELSE IF ga.heap[p].taken = block THEN [ga EXCEPT !.heap[p].taken = target]
            ELSE [ga EXCEPT !.heap[p].fall_through = target],
          g, Preds(g, block))

\* The merge of block into block.branch.
MbbMerge(g, block) ==
  LET B == g.heap[block]
      target == B.branch
      g1 == [g EXCEPT !.heap[B.prev_block].next_block = B.next_block]
      g2 == [g1 EXCEPT !.heap[B.next_block].prev_block = B.prev_block]
      g3 == [g2 EXCEPT !.heap[target].instructions = g2.heap[block].instructions \o @,
                       !.heap[target].label = g2.heap[block].label]
      g4 == MbbRedirect(g3, block, target)
      g5 == [g4 EXCEPT !.heap[target].pl = g4.heap[block].pl]
  IN IF B.prev_block = None THEN Raise(g, "AttributeError")
     ELSE IF B.next_block = None THEN Raise(g1, "AttributeError")
     ELSE Steps(<<g1, g2, g3, g4, g5>>)

\* One round of the second loop of merge_basic_blocks: new_blocks.pop(0).
MbbRound(st) ==
  LET block == Head(st.nodes)
      g1 == [st.g EXCEPT !.heap[block].visited = TRUE]
      B == g1.heap[block]
      g2 == IF B.kind = "BasicBlock" /\ B.branch # None
               /\ Len(Preds(g1, B.branch)) = 1
            THEN MbbMerge(g1, block) ELSE g1
  IN IF g2.raised # "" THEN [g |-> g2, nodes |-> <<>>]
     ELSE [g |-> g2, nodes |-> Enqueue(g2, Tail(st.nodes), block)]

\* block.instructions.remove(inst)
RemoveInst(g, block, inst) ==
  LET j == Index(g.heap[block].instructions, inst)
  IN IF j = 0 THEN Raise(g, "ValueError")
     ELSE [g EXCEPT !.heap[block].instructions = RemoveAt(@, j)]

\* The removal loop of merge_basic_blocks for the dict d of to_remove.
MbbRemove(g, block, d) ==
  LET g1 == RemoveCodeObj(g, d)
      j == IndexObj(g1, g1.heap[block].code_obj, d)
      g2 == [g1 EXCEPT !.heap[block].code_obj = RemoveAt(@, j)]
  IN IF g.raised # "" THEN g
     ELSE IF g1.raised # "" THEN g1
     ELSE IF j = 0 THEN Raise(g1, "ValueError")
     ELSE RemoveInst(g2, block, Obj(g2, d).inst)

\* The last loop of merge_basic_blocks for one block: a one-element tuple
\* that is neither first nor last in the block is marked dead together
\* with the instruction before it, and the dead ones are removed.
MbbStrip(g, block) ==
  LET co == g.heap[block].code_obj
      marked == {i \in 2..(Len(co) - 1) : TupleLen(Obj(g, co[i]).inst) = 1}
      g1 == [g EXCEPT !.objs = [k \in DOMAIN g.objs |->
                IF \E i \in marked : k = co[i] \/ k = co[i - 1]
                THEN [g.objs[k] EXCEPT !.alive = FALSE] ELSE g.objs[k]]]
      g2 == [g1 EXCEPT !.objs = List(@, Len(g.objs))]
      to_remove == SelectSeq(co, LAMBDA k : ~Obj(g2, k).alive)
  IN IF g.raised # "" THEN g
     ELSE ForEach(LAMBDA ga, d : MbbRemove(ga, block, d), g2, to_remove)

merge_basic_blocks(g) ==
  LET g1 == MbbRelink(g)
      first == g1.heap[g1.cfg].branch
      g2 == IF first = None THEN Raise(g1, "AttributeError")
            ELSE Diverged(Iterate(MbbRound, LAMBDA st : st.nodes = <<>>,
                                  [g |-> g1, nodes |-> <<first>>], MaxRounds(g)))
      g3 == instruction_analisys(g2)
  IN IF g2.raised # "" THEN g2
     ELSE ForEach(MbbStrip, g3, Chain(g3))

(***************************************************************************)
(* The semantic analyser (src/uc_sema.py) and NodeInfo (src/objects.py)    *)
(***************************************************************************)

\* The uCType singletons are named by their typename; NoType is None, the
\* 'type' of a NodeInfo that was given none.
NoType == ""
TypeNames == {"int", "float", "char", "string", "void", "bool", "any"}

\* uCType.__eq__, and Python's == between two None.
uCTypeEq(a, b) ==
  IF a = NoType /\ b = NoType THEN TRUE
  ELSE IF a = NoType \/ b = NoType THEN FALSE
  ELSE IF a = "any" \/ b = "any" THEN TRUE
  ELSE a = b

\* NodeInfo.__init__ with the entry 'type'.  params None is NoParams.
NoParams == <<"None">>
NodeInfo(type) ==
  [func |-> FALSE, params |-> NoParams, depth |-> 0, array |-> FALSE,
   type |-> type]

\* NodeInfo.__eq__.
NodeInfoEq(a, b) ==
  IF /\ a.func = b.func /\ a.array = b.array
     /\ uCTypeEq(a.type, b.type) /\ a.depth = b.depth
  THEN TRUE
  ELSE IF /\ ~a.func /\ ~b.func /\ a.array # b.array
          /\ \/ uCTypeEq(a.type, "char") /\ uCTypeEq(b.type, "string")
             \/ uCTypeEq(a.type, "string") /\ uCTypeEq(b.type, "char")
  THEN TRUE
  ELSE uCTypeEq(a.type, b.type) /\ a.array = b.array /\ a.depth = b.depth

\* The nodes of declarations and calls.  A Decl made by Decl(name, type)
\* declares a variable (its declarator is a VarDecl); FuncDeclaration is the
\* Decl of a prototype and of a function definition, whose declarator is a
\* FuncDecl with the parameters in init: a ParamList, or the EmptyStatement
\* of an empty pair of parentheses.
ParamList(list) == Node("ParamList", "", "", 0, "", list)
VarDecl(name, type) == Node("VarDecl", "", name, 0, type, <<>>)
FuncDecl(name, type, params) ==
  Node("FuncDecl", "", name, 0, type,
       <<IF params = <<>> THEN EmptyStatement ELSE ParamList(params)>>)
FuncDeclaration(name, type, params) ==
  Node("Decl", "", name, 0, type, <<FuncDecl(name, type, params)>>)
GlobalDecl(decls) == Node("GlobalDecl", "", "", 0, "", decls)
FuncCall(name, args) == Node("FuncCall", "", name, 0, "", args)
Program(gdecls) == Node("Program", "", "", 0, "", gdecls)

\* Decl.decl.
Declarator(n) == IF n.c = <<>> THEN VarDecl(n.name, n.type) ELSE n.c[1]

\* The messages print_error is called with.
Diag(what, name) == [what |-> what, name |-> name]
Redeclared(name) == Diag("Error. Variavel já definida no escopo.", name)
NotDefined(name) == Diag("Error. Variable not defined.", name)
Mismatch ==
  Diag("Error. function definition does not match the function declaration",
       "")
ArgCount(name) ==
  Diag("Number of arguments do not match function parameter declaration",
       name)
ArgTypes(name) ==
  Diag("Types of arguments do not match function parameter declaration",
       name)

\* print_error is 'assert False, msg': the message leaves the analyser as
\* the AssertionError that ends the visit.  diags lists the messages given.
print_error(s, msg) ==
  [s EXCEPT !.diags = Append(@, msg), !.raised = "AssertionError"]

\* Environment.__init__: a new SymbolTable, chained to the table of
\* merge_with, that already holds an entry for each of seven names.
BuiltinNames == {"int", "float", "char", "array", "string", "prt", "void"}
BuiltinEntries ==
  [n \in BuiltinNames |-> NodeInfo(IF n = "prt" THEN "ptr" ELSE n)]
Environment(s, merge_with) ==
  [s EXCEPT !.envs = Append(@, [merge_with |-> merge_with,
                               symtable |-> BuiltinEntries])]

\* Visitor.__init__: the global environment is environment 1.
global_env == 1
NewVisitor ==
  Environment([envs |-> <<>>, functions |-> <<>>, diags |-> <<>>,
               raised |-> "", node_info |-> NodeInfo(NoType)], None)

\* SymbolTable.lookup through Environment.lookup; NoInfo is the None of a
\* name no table of the chain holds.
NoInfo == [func |-> FALSE, params |-> NoParams, depth |-> 0, array |-> FALSE,
           type |-> "None"]
RECURSIVE lookup(_, _, _)
lookup(s, env, name) ==
  IF s.envs[env].merge_with # None /\ name \notin DOMAIN s.envs[env].symtable
  THEN lookup(s, s.envs[env].merge_with, name)
  ELSE IF name \in DOMAIN s.envs[env].symtable
       THEN s.envs[env].symtable[name]
       ELSE NoInfo

\* Environment.add_local_var with SymbolTable.add: the exception of a name
\* the table holds becomes a diagnostic.
add_local_var(s, env, name, info) ==
  IF name \in DOMAIN s.envs[env].symtable
  THEN print_error(s, Redeclared(name))
  ELSE [s EXCEPT !.envs[env].symtable = (name :> info) @@ @]

\* The entry visit_ID finds for a name: that of the scope chain if there
\* is one, that of the global table if not.
Resolve(s, env, name) ==
  IF lookup(s, env, name) # NoInfo THEN lookup(s, env, name)
  ELSE lookup(s, global_env, name)

\* Visitor.visit_ID, its end: node_info is a copy of the entry.
IdInfo(s, n, env) ==
  IF s.raised # "" THEN s
  ELSE [s EXCEPT !.node_info = Resolve(s, env, n.name)]

\* Visitor.visit_ID, after print_error: the name is added to the scope with
\* the type any.  This is reached only if print_error returns.
IdRecover(s, n, env) ==
  IF s.raised # "" THEN s
  ELSE add_local_var(s, env, n.name, NodeInfo("any"))

\* Visitor.visit_ID: a name neither the scope chain nor the global table
\* holds is diagnosed.
Visitor_visit_ID(s, n, env) ==
  IF Resolve(s, env, n.name) = NoInfo
  THEN IdInfo(IdRecover(print_error(s, NotDefined(n.name)), n, env), n, env)
  ELSE IdInfo(s, n, env)

\* An argument of a call: a Constant has its node_info from its
\* constructor (visit_Constant does nothing), an ID is visited.
Visitor_visit_expr(s, n, env) ==
  IF n.k = "ID" THEN Visitor_visit_ID(s, n, env)
  ELSE [s EXCEPT !.node_info = NodeInfo(n.type)]

\* Visitor.visit_FuncCall, the visit of the children: the callee, then the
\* arguments, whose types are collected.
ArgVisited(acc, s) ==
  [acc EXCEPT !.s = s, !.types = Append(@, s.node_info.type)]
CallChildren(s, n, env) ==
  ForEach(LAMBDA acc, a : IF acc.s.raised # "" THEN acc
                          ELSE ArgVisited(acc, Visitor_visit_expr(acc.s, a, env)),
          [s |-> s, types |-> <<>>, callee |-> s.node_info], n.c)

\* Visitor.visit_FuncCall, the result: the node_info of the callee, as that
\* of a value.
CallInfo(v) ==
  [v.s EXCEPT !.node_info =
     [v.callee EXCEPT !.func = FALSE, !.params = NoParams]]

\* Visitor.visit_FuncCall, after the children: the arguments are compared
\* with the callee's params if node.expr2 is truthy, and the expr2 of a
\* call without arguments is an EmptyStatement.
CallCheck(v, n) ==
  IF v.s.raised # "" THEN v.s
  ELSE IF n.c = <<>> THEN CallInfo(v)
  ELSE IF v.callee.params = NoParams
  THEN [v.s EXCEPT !.raised = "TypeError"]
  ELSE IF Len(v.types) # Len(v.callee.params)
  THEN print_error(v.s, ArgCount(n.name))
  ELSE IF \E i \in 1..Len(v.types) :
            ~uCTypeEq(v.types[i], v.callee.params[i])
  THEN print_error(v.s, ArgTypes(n.name))
  ELSE CallInfo(v)

\* Visitor.visit_FuncCall.
Visitor_visit_FuncCall(s, n, env) ==
  CallCheck(CallChildren(Visitor_visit_ID(s, ID(n.name, ""), env), n, env), n)

\* What has the attribute list the comparison reads: a ParamList.
HasList(n) == n.k = "ParamList"

\* Decl.init, the initializer: no declaration of the model has one, and the
\* EmptyStatement or None in its place has no attribute list.
Initializer(n) == EmptyStatement

\* The names and types of the parameters of a list.
ParamPairs(list) == List([i \in 1..Len(list) |-> <<list[i].name, list[i].type>>], Len(list))

\* Visitor.compare_func_decl(decl1, decl2): decl1 is the declarator of the
\* declaration visited, decl2 the Decl registered in functions.  Any
\* exception makes the result False: decl1.decl of a VarDecl, .list of an
\* EmptyStatement, and decl2.init.list, decl2.init being the initializer of
\* the registered Decl and not its parameter list.
compare_func_decl(decl1, decl2) ==
  IF decl1.k # "FuncDecl" THEN FALSE
  ELSE IF decl1.name # Declarator(decl2).name THEN FALSE
  ELSE IF decl1.type # decl2.type THEN FALSE
  ELSE IF ~HasList(decl1.c[1]) THEN FALSE
  ELSE IF ~HasList(Initializer(decl2)) THEN FALSE
  ELSE ParamPairs(decl1.c[1].c) = ParamPairs(Initializer(decl2).c)

RECURSIVE Visitor_visit_Decl(_, _, _)

\* Visitor.visit_ParamList, its end: node_info lists the types of the
\* parameters.
ParamTypes(s, n) ==
  IF s.raised # "" THEN s
  ELSE [s EXCEPT !.node_info =
          [NodeInfo(NoType) EXCEPT
             !.params = List([i \in 1..Len(n.c) |-> n.c[i].type], Len(n.c))]]

\* Visitor.visit_ParamList: the parameters are declared in the scope of the
\* function.
Visitor_visit_ParamList(s, n, env) ==
  ParamTypes(ForEach(LAMBDA acc, d : IF acc.raised # "" THEN acc
                                     ELSE Visitor_visit_Decl(acc, d, env),
                     s, n.c), n)

\* Visitor.visit_FuncDecl, its end: the node_info of the return type, made
\* that of a function with the types of the parameters.
FuncInfo(s, n) ==
  IF s.raised # "" THEN s
  ELSE [s EXCEPT !.node_info =
          [NodeInfo(n.type) EXCEPT
             !.func = TRUE,
             !.params = IF Truthy(n.c[1]) THEN s.node_info.params ELSE <<>>]]

\* Visitor.visit_FuncDecl: init, then the VarDecl with the return type.
Visitor_visit_FuncDecl(s, n, env) ==
  FuncInfo(IF Truthy(n.c[1]) THEN Visitor_visit_ParamList(s, n.c[1], env)
           ELSE s, n)

\* The position of a name in the list of names of functions.
IndexOf(functions, name) ==
  CHOOSE i \in 1..Len(functions) :
    /\ functions[i].name = name
    /\ \A j \in 1..(i - 1) : functions[j].name # name

\* The name is in the list of names of global_env.functions.
Registered(s, name) == \E i \in 1..Len(s.functions) : s.functions[i].name = name

\* The first half of Visitor.visit_Decl: a name in global_env.functions is
\* compared with the registered declaration, any other declarator is
\* visited.  node_info is then node.decl.node_info.
DeclInfo(s, n, env) ==
  IF Registered(s, n.name)
  THEN IF ~compare_func_decl(Declarator(n),
                             s.functions[IndexOf(s.functions, n.name)].node)
       THEN print_error(s, Mismatch)
       ELSE [s EXCEPT !.node_info =
               s.functions[IndexOf(s.functions, n.name)].node_info]
  ELSE IF Declarator(n).k = "FuncDecl"
       THEN Visitor_visit_FuncDecl(s, Declarator(n), env)
       ELSE [s EXCEPT !.node_info = NodeInfo(n.type)]

\* The entry of a function in functions.
Registration(s, n) ==
  IF s.raised # "" THEN s
  ELSE [s EXCEPT !.functions =
          Append(@, [name |-> n.name, node |-> n, node_info |-> s.node_info])]

\* Visitor.visit_Decl, the registration: a function not yet in functions is
\* added to the global table and to functions.
Register(s, n) ==
  IF s.raised # "" THEN s
  ELSE IF s.node_info.func /\ ~Registered(s, n.name)
  THEN Registration(add_local_var(s, global_env, n.name, s.node_info), n)
  ELSE s

\* Visitor.visit_Decl, its end: the name is added to the scope of the
\* declaration.
DeclAdd(s, n, env) ==
  IF s.raised # "" THEN s
  ELSE add_local_var(s, env, n.name, s.node_info)

\* Visitor.visit_Decl.
Visitor_visit_Decl(s, n, env) ==
  DeclAdd(Register(DeclInfo(s, n, env), n), n, env)

\* Visitor.visit_GlobalDecl: the declarations are visited in global_env.
Visitor_visit_GlobalDecl(s, n) ==
  ForEach(LAMBDA acc, d : IF acc.raised # "" THEN acc
                          ELSE Visitor_visit_Decl(acc, d, global_env),
          s, n.c)

\* The visit of a declaration or statement of a compound.
CompoundChild(s, d, env) ==
  IF s.raised # "" THEN s
  ELSE CASE d.k = "Decl" -> Visitor_visit_Decl(s, d, env)
         [] d.k = "FuncCall" -> Visitor_visit_FuncCall(s, d, env)
         [] d.k = "ID" -> Visitor_visit_ID(s, d, env)
         [] OTHER -> s

\* Visitor.visit_Compound: a new Environment chained to the one of the
\* function; declarations and statements are visited in it.
Visitor_visit_Compound(s, n, env) ==
  ForEach(LAMBDA acc, d : CompoundChild(acc, d, Len(s.envs) + 1),
          Environment(s, env), n.c)

\* Visitor.visit_FuncDef, its end: the compound is visited in the
\* environment of the function.
FuncDefBody(s, n, env) ==
  IF s.raised # "" THEN s ELSE Visitor_visit_Compound(s, n.c[2], env)

\* Visitor.visit_FuncDef: a new Environment, chained to none, for the
\* function; its Decl (FuncDef.__init__ wraps the declarator) and its
\* compound are visited in it.
Visitor_visit_FuncDef(s, n) ==
  FuncDefBody(Visitor_visit_Decl(Environment(s, None),
                                 FuncDeclaration(n.name, n.type, n.c[1].c),
                                 Len(s.envs) + 1),
              n, Len(s.envs) + 1)

\* Visitor.visit_Program.
Visitor_visit_Program(s, n) ==
  ForEach(LAMBDA acc, d : IF acc.raised # "" THEN acc
                          ELSE IF d.k = "FuncDef"
                          THEN Visitor_visit_FuncDef(acc, d)
                          ELSE Visitor_visit_GlobalDecl(acc, d),
          s, n.c)

(***************************************************************************)
(* The inputs: function definitions over one local x and one global g,     *)
(* with at most MaxNodes statement nodes in the body.                      *)
(***************************************************************************)
MaxNodes == 3

x == ID("x", "int")
gv == ID("g", "int")
one == Constant("int", 1)

\* Conditions: x < 1, x == x, x != x.
Conds == {BinaryOp("<", "bool", x, one),
          BinaryOp("==", "bool", x, x),
          BinaryOp("!=", "bool", x, x)}

\* Statements without sub-statements; Break only inside a loop.
Atoms(type, loop) ==
  {Assignment("=", x, one), Assignment("=", gv, x), PrintNode(x),
   Return(IF type = "void" THEN EmptyStatement ELSE x),
   AssertNode(BinaryOp("<", "bool", x, one))}
  \cup (IF loop THEN {Break} ELSE {})

RECURSIVE Stmts(_, _, _)
RECURSIVE Lists(_, _, _)

\* What can stand as the body of an if, else, while or for with exactly n
\* nodes: the empty statement ';', or a compound statement (a single
\* statement s is lowered as the compound { s }).
Bodies(n, type, loop) ==
  (IF n = 1 THEN {EmptyStatement} ELSE {})
  \cup {Compound(l) : l \in Lists(n - 1, type, loop)}

\* The statements with exactly n nodes.
Stmts(n, type, loop) ==
  IF n = 1 THEN Atoms(type, loop)
  ELSE {If(c, t, EmptyStatement) : c \in Conds, t \in Bodies(n - 1, type, loop)}
       \cup UNION {{If(c, t, e) : c \in Conds, t \in Bodies(i, type, loop),
                       e \in Bodies(n - 1 - i, type, loop) \ {EmptyStatement}}
                   : i \in 1..(n - 2)}
       \cup {While(c, b) : c \in Conds, b \in Bodies(n - 1, type, TRUE)}
       \cup {For(Assignment("=", x, one), c, UnaryOp("p++", "int", x), b)
               : c \in {BinaryOp("<", "bool", x, one)},
                 b \in Bodies(n - 1, type, TRUE)}

\* The statement lists with exactly n nodes in all.
Lists(n, type, loop) ==
  IF n = 0 THEN {<<>>}
  ELSE UNION {{<<s>> \o l : s \in Stmts(i, type, loop),
                            l \in Lists(n - i, type, loop)} : i \in 1..n}

Signatures == {<<"main", "void", <<>>>>, <<"f", "int", <<Decl("a", "int")>>>>}

Programs ==
  UNION {{FuncDef(sg[1], sg[2], sg[3], Compound(<<Decl("x", "int")>> \o l))
            : l \in UNION {Lists(n, sg[2], FALSE) : n \in 0..MaxNodes}}
         : sg \in Signatures}

(***************************************************************************)
(* The driver                                                              *)
(***************************************************************************)
Init ==
  /\ pc = "parsed"
  /\ node \in Programs
  /\ cg = NewGenerator({"g"})
  /\ err = ""
  /\ worklist = <<>>
  /\ sema = NewVisitor
  /\ eq = FALSE

\* The statements of visit_Program run one after the other; an exception
\* raised by one ends the run.
Then(g, Pass(_)) == IF g.raised # "" THEN g ELSE Pass(g)

\* visit_Program on a program with the one function: the FuncDef is
\* lowered and its instructions are classified.
Lower ==
  /\ pc = "parsed"
  /\ cg' = Then(visit_FuncDef(node, cg), instruction_analisys)
  /\ pc' = "lowered"
  /\ err' = cg'.raised
  /\ UNCHANGED <<node, worklist, sema, eq>>

\* The place of a pass in the optimizer sequence of visit_Program.
Rank(p) ==
  CASE p = "lowered" -> 0
    [] p = "copy_propagation" -> 1
    [] p = "constant_folding" -> 2
    [] p = "branch_folding" -> 3
    [] p = "deadcode_elimination" -> 4
    [] p = "block_removal" -> 5
    [] p = "merge_basic_blocks" -> 6

\* A pass may run once the function is lowered, no pass has raised and no
\* later pass of the sequence has run; every pass may be left out.
MayRun(p) == pc # "parsed" /\ err = "" /\ Rank(pc) < Rank(p)

\* instruction_analisys, reaching_definitions, copy_propagation
CopyPropagation ==
  /\ MayRun("copy_propagation")
  /\ cg' = Then(Then(instruction_analisys(cg), reaching_definitions), copy_propagation)
  /\ pc' = "copy_propagation"
  /\ err' = cg'.raised
  /\ UNCHANGED <<node, worklist, sema, eq>>

\* instruction_analisys, reaching_definitions, branch_folding
BranchFolding ==
  /\ MayRun("branch_folding")
  /\ cg' = Then(Then(instruction_analisys(cg), reaching_definitions), branch_folding)
  /\ pc' = "branch_folding"
  /\ err' = cg'.raised
  /\ UNCHANGED <<node, worklist, sema, eq>>

\* instruction_analisys, liveness_analisys, deadcode_elimination
DeadcodeElimination ==
  /\ MayRun("deadcode_elimination")
  /\ cg' = Then(Then(instruction_analisys(cg), liveness_analisys), deadcode_elimination)
  /\ pc' = "deadcode_elimination"
  /\ err' = cg'.raised
  /\ UNCHANGED <<node, worklist, sema, eq>>

BlockRemoval ==
  /\ MayRun("block_removal")
  /\ cg' = block_removal(cg)
  /\ pc' = "block_removal"
  /\ err' = cg'.raised
  /\ UNCHANGED <<node, worklist, sema, eq>>

MergeBasicBlocks ==
  /\ MayRun("merge_basic_blocks")
  /\ cg' = merge_basic_blocks(cg)
  /\ pc' = "merge_basic_blocks"
  /\ err' = cg'.raised
  /\ UNCHANGED <<node, worklist, sema, eq>>

Next ==
  \/ Lower
  \/ CopyPropagation
  \/ BranchFolding
  \/ DeadcodeElimination
  \/ BlockRemoval
  \/ MergeBasicBlocks

Spec == Init /\ [][Next]_vars

(***************************************************************************)
(* The dataflow analyses run twice on the lowered function                 *)
(***************************************************************************)

MaxDfNodes == 4

\* The programs: main with a body of at most MaxDfNodes nodes.
DfPrograms ==
  {FuncDef("main", "void", <<>>, Compound(<<Decl("x", "int")>> \o l))
     : l \in UNION {Lists(n, "void", FALSE) : n \in 0..MaxDfNodes}}

DfInit ==
  /\ pc = "parsed"
  /\ node \in DfPrograms
  /\ cg = NewGenerator({"g"})
  /\ err = ""
  /\ worklist = <<>>
  /\ sema = NewVisitor
  /\ eq = FALSE

\* An analysis is run on the generator when the run is at 'from'.
Analyse(from, to, Pass(_)) ==
  /\ pc = from
  /\ cg' = Pass(cg)
  /\ pc' = to
  /\ err' = cg'.raised
  /\ UNCHANGED <<node, worklist, sema, eq>>

ReachingDefinitions == Analyse("lowered", "rd", reaching_definitions)
ReachingDefinitionsAgain == Analyse("rd", "rd_again", reaching_definitions)
Liveness == Analyse("lowered", "la", liveness_analisys)
LivenessAgain == Analyse("la", "la_again", liveness_analisys)

DfNext ==
  \/ Lower
  \/ ReachingDefinitions
  \/ ReachingDefinitionsAgain
  \/ Liveness
  \/ LivenessAgain

DfSpec == DfInit /\ [][DfNext]_vars

(***************************************************************************)
(* Branch folding on conditions with identical operands                    *)
(***************************************************************************)
\* x op x and x op 1 for the comparisons ==, !=, <=, >=
BfConds ==
  {BinaryOp(o, "bool", x, r) : o \in {"==", "!=", "<=", ">="}, r \in {x, one}}

BfBodies == {EmptyStatement, Compound(<<Assignment("=", gv, x)>>)}

\* void main() { int x; s } with s an if or a while on one of the conditions
BfPrograms ==
  {FuncDef("main", "void", <<>>, Compound(<<Decl("x", "int"), st>>)) :
     st \in {If(c, t, e) : c \in BfConds, t \in BfBodies, e \in BfBodies}
            \cup {While(c, t) : c \in BfConds, t \in BfBodies}}

BfInit ==
  /\ pc = "parsed"
  /\ node \in BfPrograms
  /\ cg = NewGenerator({"g"})
  /\ err = ""
  /\ worklist = <<>>
  /\ sema = NewVisitor
  /\ eq = FALSE

BfSpecNext == Lower \/ CopyPropagation \/ BranchFolding

BfSpec == BfInit /\ [][BfSpecNext]_vars

(***************************************************************************)
(* Lowering of assignments                                                 *)
(***************************************************************************)
AssignOps == {"=", "+=", "-=", "*=", "/=", "%="}

\* The right sides: 1, x, g, x + 1, g * x
AssignExprs ==
  {one, x, gv, BinaryOp("+", "int", x, one), BinaryOp("*", "int", gv, x)}

\* void main() { int x; l op= e; } and the same followed by print(x);
AsgPrograms ==
  {FuncDef("main", "void", <<>>,
           Compound(<<Decl("x", "int"), Assignment(o, l, e)>> \o rest)) :
     o \in AssignOps, l \in {x, gv}, e \in AssignExprs,
     rest \in {<<>>, <<PrintNode(x)>>}}

AsgInit ==
  /\ pc = "parsed"
  /\ node \in AsgPrograms
  /\ cg = NewGenerator({"g"})
  /\ err = ""
  /\ worklist = <<>>
  /\ sema = NewVisitor
  /\ eq = FALSE

AsgNext == Lower

AsgSpec == AsgInit /\ [][AsgNext]_vars

(***************************************************************************)
(* The worklist loops round by round.  The passes run to completion on the *)
(* one thread of the compiler, so a loop that can take a round takes it.   *)
(***************************************************************************)
\* The classes of the nodes of an AST.
RECURSIVE Kinds(_)
Kinds(n) == {n.k} \cup UNION {Kinds(n.c[i]) : i \in DOMAIN n.c}

\* The programs with a loop.
WlPrograms == {p \in DfPrograms : Kinds(p) \cap {"While", "For"} # {}}

WlInit ==
  /\ pc = "parsed"
  /\ node \in WlPrograms
  /\ cg = NewGenerator({"g"})
  /\ err = ""
  /\ worklist = <<>>
  /\ sema = NewVisitor
  /\ eq = FALSE

\* The block list a pass collects before its worklist loop.
StartLoop(from, to, Prelude(_)) ==
  /\ pc = from /\ err = ""
  /\ cg' = Prelude(cg)
  /\ worklist' = Chain(cg)
  /\ pc' = to
  /\ UNCHANGED <<node, err, sema, eq>>

\* while len(nodes) > 0: one round.
Round(at, Step(_)) ==
  /\ pc = at /\ worklist # <<>>
  /\ cg' = Step([g |-> cg, nodes |-> worklist]).g
  /\ worklist' = Step([g |-> cg, nodes |-> worklist]).nodes
  /\ UNCHANGED <<pc, node, err, sema, eq>>

\* The loop is left when the list is empty.
EndLoop(at, to) ==
  /\ pc = at /\ worklist = <<>>
  /\ pc' = to
  /\ err' = cg.raised
  /\ UNCHANGED <<node, cg, worklist, sema, eq>>

\* deadcode_elimination changes nothing before its worklist loop.
DcePrelude(g) == g

RdStart == StartLoop("lowered", "rd_loop", RdGenKill)
RdStep == Round("rd_loop", RdRound)
RdEnd == EndLoop("rd_loop", "rd")
LaStart == StartLoop("lowered", "la_loop", LaPrelude)
LaStep == Round("la_loop", LaRound)
LaEnd == EndLoop("la_loop", "la")
DceStart == StartLoop("la", "dce_loop", DcePrelude)
DceStep == Round("dce_loop", DceRound)
DceEnd == EndLoop("dce_loop", "dce")

WlNext ==
  \/ Lower
  \/ RdStart \/ RdStep \/ RdEnd
  \/ LaStart \/ LaStep \/ LaEnd
  \/ DceStart \/ DceStep \/ DceEnd

\* A worklist loop that is not empty takes its next round.
WlRounds == RdStep \/ LaStep \/ DceStep

WlSpec == WlInit /\ [][WlNext]_vars /\ WF_vars(WlRounds)


(***************************************************************************)
(* Semantic analysis of small programs: at most MaxGlobals global          *)
(* declarations (a variable, a prototype of f or a definition of f with an *)
(* empty body), then main with at most MaxLocals local declarations and at *)
(* most MaxUses statements, each the use of a name or a call of f.         *)
(***************************************************************************)
MaxGlobals == 2
MaxLocals == 2
MaxUses == 1

\* The return type and the parameters f is declared with.
SemaSignatures ==
  {<<"int", <<>>>>, <<"int", <<Decl("a", "int")>>>>,
   <<"float", <<Decl("a", "int")>>>>, <<"int", <<Decl("b", "int")>>>>,
   <<"int", <<Decl("a", "float")>>>>}

SemaVars == {Decl("x", "int"), Decl("array", "int")}

SemaGlobals ==
  {GlobalDecl(<<d>>) : d \in SemaVars}
  \cup {GlobalDecl(<<FuncDeclaration("f", sg[1], sg[2])>>) : sg \in SemaSignatures}
  \cup {FuncDef("f", sg[1], sg[2], Compound(<<>>)) : sg \in SemaSignatures}

SemaUses ==
  {ID("x", ""), ID("y", ""), ID("array", ""),
   FuncCall("f", <<>>), FuncCall("f", <<Constant("int", 1)>>),
   FuncCall("f", <<Constant("float", 1)>>),
   FuncCall("f", <<Constant("int", 1), Constant("int", 1)>>)}

\* The sequences over S of length at most n.
SeqsUpTo(S, n) == UNION {[1..k -> S] : k \in 0..n}

SemaPrograms ==
  {Program(gl \o <<FuncDef("main", "void", <<>>, Compound(l \o u))>>)
     : gl \in SeqsUpTo(SemaGlobals, MaxGlobals),
       l \in SeqsUpTo(SemaVars, MaxLocals),
       u \in SeqsUpTo(SemaUses, MaxUses)}

SemaInit ==
  /\ pc = "parsed"
  /\ node \in SemaPrograms
  /\ cg = NewGenerator({})
  /\ err = ""
  /\ worklist = <<>>
  /\ sema = NewVisitor
  /\ eq = FALSE

\* Visitor().visit(ast): the whole program is analysed, up to the exception
\* that ends the visit.
SemanticAnalysis ==
  /\ pc = "parsed"
  /\ sema' = Visitor_visit_Program(sema, node)
  /\ pc' = "checked"
  /\ err' = sema'.raised
  /\ UNCHANGED <<node, cg, worklist, eq>>

SemaNext == SemanticAnalysis

SemaSpec == SemaInit /\ [][SemaNext]_vars

(***************************************************************************)
(* The comparison of two NodeInfo                                          *)
(***************************************************************************)
MaxDepth == 1

NodeInfos ==
  {[NodeInfo(t) EXCEPT !.func = f, !.array = a, !.depth = d]
     : t \in {"int", "char", "string", "any"}, f \in BOOLEAN, a \in BOOLEAN,
       d \in 0..MaxDepth}

EqInit ==
  /\ pc = "parsed"
  /\ node \in NodeInfos \X NodeInfos
  /\ cg = NewGenerator({})
  /\ err = ""
  /\ worklist = <<>>
  /\ sema = NewVisitor
  /\ eq = FALSE

\* node[1] == node[2].
Compare ==
  /\ pc = "parsed"
  /\ eq' = NodeInfoEq(node[1], node[2])
  /\ pc' = "compared"
  /\ UNCHANGED <<node, cg, err, worklist, sema>>

EqNext == Compare

EqSpec == EqInit /\ [][EqNext]_vars

(***************************************************************************)
(* Block removal on the lowered function, after copy propagation and       *)
(* branch folding or without them                                          *)
(***************************************************************************)
BrSpecNext == Lower \/ CopyPropagation \/ BranchFolding \/ BlockRemoval

BrSpec == Init /\ [][BrSpecNext]_vars

(***************************************************************************)
(* Constant folding: a function whose one statement computes with          *)
(* literals.  The operands are the literals 0..MaxLiteral, their negations *)
(* and the variable x; every program passes the semantic analysis.         *)
(***************************************************************************)
MaxLiteral == 2

CfAtoms ==
  {Constant("int", v) : v \in 0..MaxLiteral}
  \cup {UnaryOp("-", "int", Constant("int", v)) : v \in 1..MaxLiteral}
  \cup {x}

CfArith ==
  {BinaryOp(o, "int", a, b) : o \in {"+", "-", "*", "/", "%"}, a \in CfAtoms, b \in CfAtoms}

CfCompare ==
  {BinaryOp(o, "bool", a, b) :
     o \in {"<", "<=", ">", ">=", "==", "!="}, a \in CfAtoms, b \in CfAtoms}

\* 1 < 2, 2 < 1, x < 1 and 1 == 1 as the operands of &&, ||, == and !=.
CfBools ==
  {BinaryOp("<", "bool", Constant("int", 1), Constant("int", 2)),
   BinaryOp("<", "bool", Constant("int", 2), Constant("int", 1)),
   BinaryOp("<", "bool", x, one),
   BinaryOp("==", "bool", one, one)}

CfLogical ==
  {BinaryOp(o, "bool", a, b) : o \in {"&&", "||", "==", "!="}, a \in CfBools, b \in CfBools}

\* void main() { int x; x = e; }  and  void main() { int x; if (c) { x = 1; } }
CfPrograms ==
  {FuncDef("main", "void", <<>>, Compound(<<Decl("x", "int"), Assignment("=", x, e)>>))
     : e \in CfArith}
  \cup {FuncDef("main", "void", <<>>,
                Compound(<<Decl("x", "int"),
                           If(c, Compound(<<Assignment("=", x, one)>>), EmptyStatement)>>))
          : c \in CfCompare \cup CfLogical}

CfInit ==
  /\ pc = "parsed"
  /\ node \in CfPrograms
  /\ cg = NewGenerator({"g"})
  /\ err = ""
  /\ worklist = <<>>
  /\ sema = NewVisitor
  /\ eq = FALSE

\* instruction_analisys, reaching_definitions, constant_folding
ConstantFolding ==
  /\ MayRun("constant_folding")
  /\ cg' = Then(Then(instruction_analisys(cg), reaching_definitions), constant_folding)
  /\ pc' = "constant_folding"
  /\ err' = cg'.raised
  /\ UNCHANGED <<node, worklist, sema, eq>>

CfNext == Lower \/ ConstantFolding

CfSpec == CfInit /\ [][CfNext]_vars

(***************************************************************************)
(* Copy propagation over the value of x++, x-- and ++x: a function whose   *)
(* one statement assigns or prints an expression over them.                *)
(***************************************************************************)
CpAtoms ==
  {x, one, UnaryOp("p++", "int", x), UnaryOp("p--", "int", x), UnaryOp("++", "int", x)}

CpExprs == CpAtoms \cup {BinaryOp("+", "int", a, b) : a \in CpAtoms, b \in CpAtoms}

\* void main() { int x; x = e; },  ... g = e; ...  and  ... print(e); ...
CpPrograms ==
  {FuncDef("main", "void", <<>>, Compound(<<Decl("x", "int"), s>>)) :
     s \in {Assignment("=", l, e) : l \in {x, gv}, e \in CpExprs}
           \cup {PrintNode(e) : e \in CpExprs}}

CpInit ==
  /\ pc = "parsed"
  /\ node \in CpPrograms
  /\ cg = NewGenerator({"g"})
  /\ err = ""
  /\ worklist = <<>>
  /\ sema = NewVisitor
  /\ eq = FALSE

CpNext == Lower \/ CopyPropagation

CpSpec == CpInit /\ [][CpNext]_vars

(***************************************************************************)
(* The constant pool.  The analyser interns string literals and array      *)
(* initializers in consts of the global environment and leaves the index   *)
(* at the node; the generator writes the index into the operand @.str.<i>  *)
(* of the instruction it lowers the node to, and visit_Program emits the   *)
(* pool.  Here sema is the global environment (consts, vars) and cg holds  *)
(* the instructions of the functions that name a pool entry (code), for    *)
(* each of them the literal interned for it (literal), and the global      *)
(* instructions (global_code).                                             *)
(***************************************************************************)
MaxInterned == 3

\* The elements of consts: a str, a list of numbers, or None.
PoolStr(v) == [t |-> "str", s |-> v, a |-> <<>>]
PoolList(v) == [t |-> "list", s |-> "", a |-> v]
PoolNone == [t |-> "None", s |-> "", a |-> <<>>]

\* Environment.add_global_str: the index (from 0) of the string in consts,
\* which gets the string at its end unless it holds it.
add_global_str(env, str) ==
  LET consts == IF Index(env.consts, PoolStr(str)) = 0
                THEN Append(env.consts, PoolStr(str)) ELSE env.consts
  IN [env |-> [env EXCEPT !.consts = consts], idx |-> Index(consts, PoolStr(str)) - 1]

\* Environment.add_global_array: the list is appended, the index is the
\* one of the first element of consts equal to it.
add_global_array(env, array) ==
  LET consts == Append(env.consts, PoolList(array))
  IN [env |-> [env EXCEPT !.consts = consts], idx |-> Index(consts, PoolList(array)) - 1]

\* Environment.add_global_var
add_global_var(env, var) == [env EXCEPT !.vars = Append(@, var)]

\* An instruction of global_code_obj: ('global_<suffix>', operand, value),
\* the value None when the tuple has none.
GlobalInst(s, opnd, value) == [f |-> "global", s |-> s, args |-> <<opnd>>, value |-> value]

\* 'not const' for an element of consts.
Falsy(const) == const.t = "None" \/ (const.t = "str" /\ const.s = "") \/
                (const.t = "list" /\ const.a = <<>>)

\* The first loop of visit_Program for the global variable var: the global
\* instruction is appended, and the first element of consts equal to the
\* initializer list becomes None.
EmitGlobalVar(st, var) ==
  LET idx == Index(st.env.consts, PoolList(var.init))
      inst == IF var.init # <<>>
              THEN GlobalInst(<<"int", ToString(Len(var.init))>>, var.name,
                              PoolList(var.init))
              ELSE GlobalInst(<<"int">>, var.name, PoolNone)
  IN [env |-> IF var.init # <<>> /\ idx # 0
              THEN [st.env EXCEPT !.consts[idx] = PoolNone] ELSE st.env,
      global_code |-> Append(st.global_code, inst)]

\* The second loop of visit_Program for the index i (from 1) of consts.
EmitConst(st, i) ==
  LET const == st.env.consts[i]
  IN IF Falsy(const) THEN st
     ELSE [st EXCEPT !.global_code =
             Append(@, IF const.t = "list"
                       THEN GlobalInst(<<"int", ToString(Len(const.a))>>,
                                       Opnd("str", "", i - 1), const)
                       ELSE GlobalInst(<<"string">>, Opnd("str", "", i - 1), const))]

\* The two loops of visit_Program that emit the global variables and the
\* constant pool.
EmitGlobals(env) ==
  ForEach(EmitConst,
          ForEach(EmitGlobalVar, [env |-> env, global_code |-> <<>>], env.vars),
          List([i \in 1..Len(env.consts) |-> i], Len(env.consts)))

PoolStrings == {"", "a", "b"}
PoolArrays == {<<1>>, <<1, 2>>}

PoolInit ==
  /\ pc = "analysing"
  /\ node = <<>>
  /\ cg = [code |-> <<>>, literal |-> <<>>, global_code |-> <<>>]
  /\ err = ""
  /\ worklist = <<>>
  /\ sema = [consts |-> <<>>, vars |-> <<>>]
  /\ eq = FALSE

\* The number of literals met so far.
Interned == Len(cg.code) + Len(sema.vars)

\* print("<str>"): visit_Print of the analyser interns the string, the
\* generator emits print_string with the index.
PrintString ==
  /\ pc = "analysing" /\ Interned < MaxInterned
  /\ \E v \in PoolStrings :
       /\ sema' = add_global_str(sema, v).env
       /\ cg' = [cg EXCEPT !.code = Append(@, Inst("print", <<"string">>,
                                            <<Opnd("str", "", add_global_str(sema, v).idx)>>)),
                           !.literal = Append(@, PoolStr(v))]
  /\ UNCHANGED <<pc, node, err, worklist, eq>>

\* int b[] = {...}; in a function: visit_Decl of the analyser interns the
\* initializer, the generator stores the pool entry into the array.
LocalArray ==
  /\ pc = "analysing" /\ Interned < MaxInterned
  /\ \E v \in PoolArrays :
       /\ sema' = add_global_array(sema, v).env
       /\ cg' = [cg EXCEPT !.code = Append(@, Inst("store", <<"int", ToString(Len(v))>>,
                                            <<Opnd("str", "", add_global_array(sema, v).idx),
                                              Opnd("name", "b", Len(cg.code))>>)),
                           !.literal = Append(@, PoolList(v))]
  /\ UNCHANGED <<pc, node, err, worklist, eq>>

\* int a[] = {...}; at top level: visit_Decl of the analyser interns the
\* initializer, visit_GlobalDecl adds the declaration to vars.
GlobalArray ==
  /\ pc = "analysing" /\ Interned < MaxInterned
  /\ \E v \in PoolArrays :
       sema' = add_global_var(add_global_array(sema, v).env,
                              [name |-> Opnd("glob", "a", Len(sema.vars)), init |-> v])
  /\ UNCHANGED <<pc, node, cg, err, worklist, eq>>

\* visit_Program of the generator up to the emission of the pool.
EmitPool ==
  /\ pc = "analysing"
  /\ pc' = "emitted"
  /\ sema' = EmitGlobals(sema).env
  /\ cg' = [cg EXCEPT !.global_code = EmitGlobals(sema).global_code]
  /\ UNCHANGED <<node, err, worklist, eq>>

PoolNext == PrintString \/ LocalArray \/ GlobalArray \/ EmitPool

PoolSpec == PoolInit /\ [][PoolNext]_vars

(***************************************************************************)
(* Properties of the lowered CFG                                           *)
(***************************************************************************)

\* The function is lowered and no pass has raised.
Done == pc # "parsed" /\ err = ""

\* The labels a jump or cbranch names.
Targets(i) ==
  CASE i.f = "jump" /\ Len(i.args) >= 1 -> {i.args[1]}
    [] i.f = "cbranch" /\ Len(i.args) >= 3 -> {i.args[2], i.args[3]}
    [] OTHER -> {}

\* The instructions of the chain, block after block, as they are emitted.
Emitted(g) ==
  ForEach(LAMBDA acc, b : acc \o g.heap[b].instructions, <<>>, Chain(g))

\* The operands of the instructions of a sequence, in order.
Operands(is) == ForEach(LAMBDA acc, i : acc \o i.args, <<>>, is)

\* The numbers of the temporaries among the operands, in order.
TempNumbers(ops) ==
  ForEach(LAMBDA acc, a : IF a.k = "temp" THEN Append(acc, a.n) ELSE acc, <<>>, ops)

\* The first position of n in the sequence s.
First(s, n) == CHOOSE j \in 1..Len(s) : s[j] = n /\ \A k \in 1..(j - 1) : s[k] # n

\* The blocks whose instructions hold the jump to the exit block that
\* visit_Return and the failing arm of visit_Assert emit.
ExitJumpers(g) ==
  {b \in Reachable(g) \ {g.ret_block} :
     \E j \in 1..Len(g.heap[b].instructions) :
       g.heap[b].instructions[j] = Jump(g.heap[g.ret_block].label)}

\* C1: after lowering, the exit block is the only sink: every other block
\* reachable from the head has a successor, and every block that holds a
\* jump to exit (from a return or a failing assert) has exit as successor.
C1_ExitUniqueSink ==
  pc = "lowered" =>
    /\ \A b \in Reachable(cg) \ {cg.ret_block} : Succs(cg, b) # {}
    /\ \A b \in ExitJumpers(cg) : cg.ret_block \in Succs(cg, b)

\* C2: after lowering and block removal, every target of a jump or cbranch
\* of a chain block is the label of a chain block reachable from the head.
C2_TargetsAreReachableBlocks ==
  (pc = "block_removal" /\ err = "") =>
    \A b \in Range(Chain(cg)) :
      \A j \in 1..Len(cg.heap[b].instructions) :
        \A l \in Targets(cg.heap[b].instructions[j]) :
          \E t \in Range(Chain(cg)) \cap Reachable(cg) : cg.heap[t].label = l

\* The block after the head holds the define instruction.
HeadEntersDefine(g) ==
  /\ g.heap[g.cfg].kind = "BasicBlock"
  /\ g.heap[g.cfg].branch # None
  /\ \E j \in 1..Len(g.heap[g.heap[g.cfg].branch].instructions) :
       g.heap[g.heap[g.cfg].branch].instructions[j].f = "define"

\* C3: after lowering and after each pass, a ConditionBlock of the chain
\* has both arms, and the one successor of the head is the entry block,
\* the block with the define instruction.
C3_SuccessorShape ==
  Done =>
    /\ \A b \in Range(Chain(cg)) :
         cg.heap[b].kind = "ConditionBlock" =>
           cg.heap[b].taken # None /\ cg.heap[b].fall_through # None
    /\ HeadEntersDefine(cg)

\* C4: after lowering and after each pass, every chain block but the head
\* has a label and no two chain blocks have the same label.
C4_LabelsUnique ==
  Done =>
    LET chain == Chain(cg)
    IN /\ \A j \in 2..Len(chain) : cg.heap[chain[j]].label # NoOpnd
       /\ \A j, k \in 1..Len(chain) :
            j # k => cg.heap[chain[j]].label # cg.heap[chain[k]].label

\* A function whose exit block was merged into its entry block: the chain
\* is the head and one block that has the label %entry and the return.
C4_Merged ==
  /\ pc = "merge_basic_blocks" /\ err = ""
  /\ Len(Chain(cg)) = 2
  /\ cg.heap[Chain(cg)[2]].label = Opnd("name", "entry", 0)
  /\ \E j \in 1..Len(cg.heap[Chain(cg)[2]].instructions) :
       cg.heap[Chain(cg)[2]].instructions[j].f = "return"

\* C5: after lowering and after each pass, the temporaries of the emitted
\* instructions are %0..%k-1 without a gap, and their first occurrences
\* are in increasing order.
C5_TempsDense ==
  Done =>
    LET ts == TempNumbers(Operands(Emitted(cg)))
    IN /\ Range(ts) = 0..(Cardinality(Range(ts)) - 1)
       /\ \A m, n \in Range(ts) : m < n => First(ts, m) < First(ts, n)

\* The opcodes that dead-code elimination has to keep.
Protected(i) ==
  i.f \in {"print", "read", "call", "return", "param", "jump", "cbranch", "define", ":"}

\* The labels (instruction numbers) of the dicts of block b.
KeptLabels(g, b) == {Obj(g, g.heap[b].code_obj[j]).label : j \in 1..Len(g.heap[b].code_obj)}

\* The variables live after position j of block b of the analysed
\* generator ga, the instructions removed from the block not counted:
\* from la_out of the block backwards over the instructions that stay.
LiveAfter(ga, kept, b, j) ==
  ForEach(LAMBDA out, d : IF Obj(ga, d).label \in kept
                          THEN Obj(ga, d).use \cup (out \ Obj(ga, d).def)
                          ELSE out,
          ga.heap[b].la_out,
          Reverse(SubSeq(ga.heap[b].code_obj, j + 1, Len(ga.heap[b].code_obj))))

\* ga is the generator the pass works on (classified, with liveness), g2
\* the generator after the pass.
DceKeeps(ga, g2) ==
  \A b \in Range(Chain(ga)) :
    \A j \in 1..Len(ga.heap[b].code_obj) :
      LET o == Obj(ga, ga.heap[b].code_obj[j])
          stays == /\ o.label \in KeptLabels(g2, b)
                   /\ \E k \in 1..Len(g2.heap[b].instructions) :
                        g2.heap[b].instructions[k] = o.inst
      IN /\ Protected(o.inst) => stays
         /\ (o.inst.f = "store"
             /\ LastArg(o.inst) \in LiveAfter(ga, KeptLabels(g2, b), b, j)) => stays

\* C6: dead-code elimination removes no print, read, call, return, param,
\* jump, cbranch, define or label, and no store whose destination is live
\* after it.
C6_DceKeepsObservable ==
  [][(DeadcodeElimination /\ err' = "")
       => DceKeeps(liveness_analisys(instruction_analisys(cg)), cg')]_vars

\* Dead-code elimination has removed the dead 'x = 1' (no literal is left)
\* and kept the store to the global g.
C6_GlobalStoreKept ==
  /\ pc = "deadcode_elimination" /\ err = ""
  /\ \E j \in 1..Len(node.c[2].c) : node.c[2].c[j] = Assignment("=", x, one)
  /\ \A j \in 1..Len(Emitted(cg)) : Emitted(cg)[j].f # "literal"
  /\ \E j \in 1..Len(Emitted(cg)) :
       Emitted(cg)[j].f = "store" /\ LastArg(Emitted(cg)[j]) = Glob("g")

\* The definitions that reach the dict at position j of block b of the
\* analysed generator ga: rd_in of the block, followed through the
\* instructions before j.
ReachIn(ga, b, j) ==
  ForEach(LAMBDA cur, d : IF Obj(ga, d).def # {}
                          THEN (cur \ KillOf(ga, d)) \cup {Obj(ga, d).label}
                          ELSE cur,
          ga.heap[b].rd_in, SubSeq(ga.heap[b].code_obj, 1, j - 1))

\* store_<type> s, v with s a numeric temporary
TempStore(i) == i.f = "store" /\ Len(i.s) = 1 /\ i.args[1].k = "temp"

\* The operands the instruction of a dict reads: its use set, but for a
\* scalar store the source only (the destination is written, not read).
OperandsRead(o) == IF o.inst.f = "store" /\ Len(o.inst.s) = 1 THEN {o.inst.args[1]} ELSE o.use

\* The scalar instruction at position j of block b uses a variable whose
\* one reaching definition is a store of a temporary.
Propagatable(ga, b, j) ==
  LET o == Obj(ga, ga.heap[b].code_obj[j])
  IN /\ Len(o.inst.s) <= 1
     /\ \E v \in OperandsRead(o) :
          LET defs == DefsOf(ga, ReachIn(ga, b, j), v)
          IN Cardinality(defs) = 1 /\ TempStore(TheOne(defs))

NonePropagatable(ga) ==
  \A b \in Range(Chain(ga)) :
    \A j \in 1..Len(ga.heap[b].code_obj) : ~Propagatable(ga, b, j)

RdSets(g) ==
  [j \in 1..Len(Chain(g)) |->
     LET B == g.heap[Chain(g)[j]] IN <<B.rd_gen, B.rd_kill, B.rd_in, B.rd_out>>]
LaSets(g) ==
  [j \in 1..Len(Chain(g)) |->
     LET B == g.heap[Chain(g)[j]] IN <<B.la_use, B.la_def, B.la_in, B.la_out>>]

\* C8: a second run of reaching_definitions right after the first leaves
\* rd_gen, rd_kill, rd_in and rd_out of every block as they were, and a
\* second run of liveness_analisys leaves la_use, la_def, la_in and la_out
\* as they were.
C8_AnalysesIdempotent ==
  [][/\ ReachingDefinitionsAgain => RdSets(cg') = RdSets(cg)
     /\ LivenessAgain => LaSets(cg') = LaSets(cg)]_vars

\* The labels of the dicts of block b that are the last definition of their
\* variable in the block.
LastDefs(g, b) ==
  LET co == g.heap[b].code_obj
  IN {Obj(g, co[j]).label : j \in {j \in 1..Len(co) :
        /\ Obj(g, co[j]).def # {}
        /\ \A k \in (j + 1)..Len(co) : Obj(g, co[k]).def # Obj(g, co[j]).def}}

\* The labels of the instructions of the function that define a variable
\* which another instruction of block b defines.
OtherDefs(g, b) ==
  LET co == g.heap[b].code_obj
      defs == {j \in 1..Len(co) : Obj(g, co[j]).def # {}}
  IN {Obj(g, k).label : k \in {k \in Range(g.code_obj) :
        \E j \in defs : /\ Obj(g, co[j]).def = Obj(g, k).def
                        /\ Obj(g, co[j]).label # Obj(g, k).label}}

RdEquations(g, b) ==
  LET B == g.heap[b]
  IN /\ B.rd_in = UNION {g.heap[p].rd_out : p \in Range(Preds(g, b))}
     /\ B.rd_out = B.rd_gen \cup (B.rd_in \ B.rd_kill)
     /\ B.rd_gen = LastDefs(g, b)
     /\ B.rd_kill = OtherDefs(g, b)

\* C15: when reaching_definitions ends, every chain block has rd_in the
\* union of rd_out over its predecessors, rd_out = rd_gen \cup (rd_in \
\* rd_kill), rd_gen the last definition of each variable in the block and
\* rd_kill the other definitions in the function of those variables.
C15_RdFixedPoint ==
  (pc = "rd" /\ err = "") => \A b \in Range(Chain(cg)) : RdEquations(cg, b)

\* The global variable names the generator was built with.
GlobalNames == NewGenerator({"g"}).global_vars

LaEquations(g) ==
  LET chain == Chain(g)
  IN /\ g.heap[chain[Len(chain)]].la_out = GlobalNames
     /\ \A j \in 1..(Len(chain) - 1) :
          g.heap[chain[j]].la_out =
            UNION {g.heap[s].la_in : s \in Succs(g, chain[j])}
     /\ \A j \in 1..Len(chain) :
          LET B == g.heap[chain[j]]
          IN B.la_in = B.la_use \cup (B.la_out \ B.la_def)

\* C16: when liveness_analisys ends, the last chain block has la_out equal
\* to the global variable names, every other chain block has la_out the
\* union of la_in over its successors, every block has la_in = la_use \cup
\* (la_out \ la_def), and the generator's global_vars set is unchanged.
C16_LaFixedPoint ==
  (pc = "la" /\ err = "") =>
     LaEquations(cg) /\ cg.global_vars = GlobalNames

\* A run of liveness_analisys has ended on a graph with a loop: a block that
\* is not the last of the chain is its own descendant and has more than the
\* global names live at its end.
C16_LiveInLoop ==
  /\ pc = "la" /\ err = ""
  /\ \E j \in 1..(Len(Chain(cg)) - 1) :
       LET b == Chain(cg)[j]
       IN /\ cg.heap[b].la_out \ GlobalNames # {}
          /\ b \in ReachFrom(cg, {}, Succs(cg, b))

RECURSIVE SumSeq(_)
SumSeq(s) == IF s = <<>> THEN 0 ELSE Head(s) + SumSeq(Tail(s))

\* What the rounds of the loop at p build up: the sizes of the rd_out sets,
\* the sizes of the la_in sets, the instructions taken out of the blocks.
Progress(p, g) ==
  CASE p = "rd_loop" ->
         SumSeq(List([b \in DOMAIN g.heap |-> Cardinality(g.heap[b].rd_out)],
                     Len(g.heap)))
    [] p = "la_loop" ->
         SumSeq(List([b \in DOMAIN g.heap |-> Cardinality(g.heap[b].la_in)],
                     Len(g.heap)))
    [] p = "dce_loop" ->
         0 - SumSeq(List([b \in DOMAIN g.heap |-> Len(g.heap[b].instructions)],
                         Len(g.heap)))

\* The names the classified instructions and the generator mention.
Names(g) ==
  g.global_vars
    \cup UNION {Obj(g, k).use \cup Obj(g, k).def : k \in DOMAIN g.objs}

\* What Progress cannot exceed: every set full, no instruction taken out.
Ceiling(p, g) ==
  CASE p = "rd_loop" -> Len(g.heap) * g.label
    [] p = "la_loop" -> Len(g.heap) * Cardinality(Names(g))
    [] p = "dce_loop" -> 0

\* C17: the worklists of reaching_definitions, liveness_analisys and
\* deadcode_elimination become empty, on graphs with loops and nested loops
\* too: every round either builds up Progress, which has a ceiling that
\* the rounds do not move, or leaves it and makes the worklist shorter, so
\* no loop can take rounds for ever.
C17_RoundsDescend ==
  [][WlRounds =>
       /\ Ceiling(pc, cg') = Ceiling(pc, cg)
       /\ Progress(pc, cg') <= Ceiling(pc, cg)
       /\ \/ Progress(pc, cg') > Progress(pc, cg)
          \/ /\ Progress(pc, cg') = Progress(pc, cg)
             /\ Len(worklist') < Len(worklist)]_vars

\* The label of the condition block of a while loop.
WhileCond(g, b) == g.heap[b].label.b = "while.cond"

\* The worklist of deadcode_elimination has become empty on a graph with a
\* while loop nested in a while loop.
C17_NestedLoopsDone ==
  /\ pc = "dce" /\ worklist = <<>>
  /\ \E b, c \in Range(Chain(cg)) :
       /\ b # c /\ WhileCond(cg, b) /\ WhileCond(cg, c)
       /\ c \in ReachFrom(cg, {}, Succs(cg, b))
       /\ b \in ReachFrom(cg, {}, Succs(cg, c))

\* A store_<type> instruction: one suffix component, not the '*' of a
\* pointer store.
ScalarStore(i) == i.f = "store" /\ Len(i.s) = 1

\* C18: classification gives a scalar store_<type> src, dst the sets
\* def = {dst} and use = {src}; only a pointer store has its destination in
\* its use set.
C18_ScalarStoreSets ==
  (pc = "lowered" /\ err = "") =>
     \A k \in DOMAIN cg.objs :
        ScalarStore(Obj(cg, k).inst) =>
           /\ Obj(cg, k).def = {Obj(cg, k).inst.args[2]}
           /\ Obj(cg, k).use = {Obj(cg, k).inst.args[1]}

\* The block at place j of the chain was a ConditionBlock in g and is a
\* BasicBlock in g2.
Folded(g, g2, j) ==
  /\ g.heap[Chain(g)[j]].kind = "ConditionBlock"
  /\ g2.heap[Chain(g2)[j]].kind = "BasicBlock"

\* The instructions of the chain that define the operand param.
DefInsts(g, param) ==
  {i \in UNION {Range(g.heap[b].instructions) : b \in Range(Chain(g))} :
     definition_re(i) /\ LastArg(i) = param}

\* The fold of the block at place j rests on an eq or ne of two identical
\* operands and goes to the taken arm for eq, the fall_through arm for ne.
FoldJustified(g, g2, j) ==
  LET B == g.heap[Chain(g)[j]]
      B2 == g2.heap[Chain(g2)[j]]
  IN \A i \in {i \in Range(B.instructions) : i.f = "cbranch"} :
       \A d \in DefInsts(g, i.args[1]) :
          /\ d.f \in {"eq", "ne"}
          /\ d.args[1] = d.args[2]
          /\ B2.branch # None
          /\ g2.heap[B2.branch].label =
               g.heap[IF d.f = "eq" THEN B.taken ELSE B.fall_through].label

\* C19: branch folding rewrites a cbranch to a jump only when the
\* definition reaching its condition is an eq or ne of two identical
\* operands, to the taken arm for eq and the fall_through arm for ne; a
\* condition defined by another opcode on identical operands, such as le x,x
\* or ge x,x, is never folded to the fall_through arm.
C19_FoldsOnlyEqNe ==
  [][(BranchFolding /\ err' = "") =>
       \A j \in 1..Len(Chain(cg)) :
          Folded(cg, cg', j) => FoldJustified(cg, cg', j)]_vars

\* How often e is in the list s.
Count(s, e) == Cardinality({k \in DOMAIN s : s[k] = e})

\* The arm of the ConditionBlock b of g that the BasicBlock b2 of g2 goes
\* to, and the arm it does not go to, as the blocks they were in g.
ChosenArm(g, g2, b, b2) ==
  {a \in {g.heap[b].taken, g.heap[b].fall_through} \ {None} :
     g2.heap[b2].branch # None /\ g.heap[a].label = g2.heap[g2.heap[b2].branch].label}
UnchosenArm(g, g2, b, b2) ==
  ({g.heap[b].taken, g.heap[b].fall_through} \ {None}) \ ChosenArm(g, g2, b, b2)

PredsAfterFold(g, g2, j) ==
  LET b == Chain(g)[j]
      b2 == Chain(g2)[j]
  IN /\ \A u \in UnchosenArm(g, g2, b, b2) :
          {b, b2} \cap Range(Preds(g2, u)) = {}
     /\ \A a \in ChosenArm(g, g2, b, b2) :
          /\ Count(Preds(g2, a), b2) = 1
          /\ b \notin Range(Preds(g2, a))

\* C20: after branch folding has made the BasicBlock b' of the
\* ConditionBlock b, the predecessor list of the arm not chosen holds neither
\* b nor b', and the predecessor list of the arm chosen holds b' once and
\* does not hold b.
C20_FoldUpdatesPreds ==
  [][(BranchFolding /\ err' = "") =>
       \A j \in 1..Len(Chain(cg)) :
          Folded(cg, cg', j) => PredsAfterFold(cg, cg', j)]_vars

\* The arithmetic instruction of a compound assignment operator.
OpFamily(o) ==
  CASE o = "+=" -> "add" [] o = "-=" -> "sub" [] o = "*=" -> "mul"
    [] o = "/=" -> "div" [] o = "%=" -> "mod"

\* The instructions is hold, one after the other, a load of the variable
\* at loc, the instruction fam on the value loaded, and the store of its
\* result to loc.
LoadOpStore(is, loc, fam, ty) ==
  \E k \in 1..(Len(is) - 2) :
     /\ is[k].f = "load" /\ is[k].s = <<ty>> /\ is[k].args[1] = loc
     /\ is[k + 1].f = fam /\ is[k + 1].s = <<ty>>
     /\ is[k + 1].args[1] = is[k].args[2]
     /\ is[k + 2].f = "store" /\ is[k + 2].s = <<ty>>
     /\ is[k + 2].args = <<is[k + 1].args[3], loc>>

\* The assignment statement of a program of AsgPrograms.
TheAssignment(p) == p.c[2].c[2]

\* C14: a compound assignment x op= e is lowered, for every op of +=, -=,
\* *=, /=, %=, to a load of x, the matching arithmetic instruction and a
\* store back to x; x %= e gives a mod instruction followed by a store.
C14_CompoundAssignLowered ==
  (pc = "lowered" /\ err = "" /\ TheAssignment(node).op # "=") =>
     LoadOpStore(Emitted(cg),
                 cg.location[TheAssignment(node).c[1].name],
                 OpFamily(TheAssignment(node).op),
                 TheAssignment(node).c[1].type)

(***************************************************************************)
(* Properties of the semantic analysis                                     *)
(***************************************************************************)

\* The global declarations of a program of SemaPrograms, and the local
\* declarations and the statements of its main.
GlobalsOf(p) == SubSeq(p.c, 1, Len(p.c) - 1)
BodyOf(p) == p.c[Len(p.c)].c[2].c
LocalsOf(p) == SelectSeq(BodyOf(p), LAMBDA d : d.k = "Decl")
UsesOf(p) == SelectSeq(BodyOf(p), LAMBDA d : d.k \in {"ID", "FuncCall"})

\* The diagnostics of the kind of d among those given.
Given(d) == Count(sema.diags, d)

\* C9: when main declares x twice in its scope, one diagnostic is given
\* for the second declaration and the analysis goes on: the use of the
\* undeclared y that follows is diagnosed in the same pass.
C9_DiagnosticsAccumulate ==
  (/\ pc = "checked" /\ GlobalsOf(node) = <<>>
   /\ LocalsOf(node) = <<Decl("x", "int"), Decl("x", "int")>>) =>
     /\ Given(Redeclared("x")) = 1
     /\ UsesOf(node) = <<ID("y", "")>> => Given(NotDefined("y")) = 1

\* Agreement of two NodeInfo on func, array, depth and type, the type
\* compared by name with 'any' equal to every type.
Agree(a, b) ==
  /\ a.func = b.func /\ a.array = b.array /\ a.depth = b.depth
  /\ (a.type = "any" \/ b.type = "any" \/ a.type = b.type)

\* The exemption of char and string: neither is a function, one is an
\* array and the other is not, one has the type char and the other string.
Exempt(a, b) ==
  /\ ~a.func /\ ~b.func /\ a.array # b.array
  /\ \/ a.type \in {"char", "any"} /\ b.type \in {"string", "any"}
     \/ a.type \in {"string", "any"} /\ b.type \in {"char", "any"}

\* C10: a == b holds exactly if a and b agree on func, array, depth and
\* type, or the exemption of char and string applies; a function never
\* equals a value of the same type, array and depth.
C10_NodeInfoEquality ==
  pc = "compared" => (eq <=> (Agree(node[1], node[2]) \/ Exempt(node[1], node[2])))

\* The arguments of a call match the parameter types position by position.
ArgsMatch(args, params) ==
  /\ Len(args) = Len(params)
  /\ \A i \in 1..Len(args) :
       args[i].type = "any" \/ params[i] = "any" \/ args[i].type = params[i]

\* C11: an analysis that gives no diagnostic has found, for every call of
\* a registered function, as many arguments as the function has parameters
\* and the types of the parameters, also for a call without arguments.
C11_CallsMatchSignature ==
  (pc = "checked" /\ sema.diags = <<>>) =>
     \A i \in 1..Len(BodyOf(node)), j \in 1..Len(sema.functions) :
        (/\ BodyOf(node)[i].k = "FuncCall"
         /\ sema.functions[j].name = BodyOf(node)[i].name) =>
           ArgsMatch(BodyOf(node)[i].c, sema.functions[j].node_info.params)

\* The program begins with a prototype of f followed by a definition of f.
IsPrototype(n) == n.k = "GlobalDecl" /\ n.c[1].c # <<>>
PrototypeThenDefinition(p) ==
  /\ Len(p.c) = 3 /\ IsPrototype(p.c[1]) /\ p.c[2].k = "FuncDef"
  /\ p.c[1].c[1].name = p.c[2].name

\* The return type and the names and types of the parameters.
SignatureOfProto(n) == <<n.c[1].type, ParamPairs(Declarator(n.c[1]).c[1].c)>>
SignatureOfDef(n) == <<n.type, ParamPairs(n.c[1].c)>>

\* C12: a prototype of f followed by a definition of f gives no diagnostic
\* of redeclaration for f; the definition gives no diagnostic of mismatch
\* if its return type and the types and names of its parameters are those
\* of the prototype, and one such diagnostic if any of them differs.
C12_PrototypeThenDefinition ==
  (pc = "checked" /\ PrototypeThenDefinition(node)) =>
     /\ Given(Redeclared("f")) = 0
     /\ Given(Mismatch) =
          IF SignatureOfProto(node.c[1]) = SignatureOfDef(node.c[2])
          THEN 0 ELSE 1

\* The names of the declarations of a sequence are distinct.
Distinct(decls) ==
  \A i, j \in 1..Len(decls) : decls[i].name = decls[j].name => i = j

\* C13: in a program of main alone whose locals have distinct names, no
\* declaration is diagnosed as a redeclaration and the use of a name that
\* is no local is diagnosed as not defined, also for the names array,
\* string and prt.
C13_UndeclaredAlwaysDiagnosed ==
  (pc = "checked" /\ GlobalsOf(node) = <<>> /\ Distinct(LocalsOf(node))) =>
     /\ \A i \in 1..Len(LocalsOf(node)) :
          Given(Redeclared(LocalsOf(node)[i].name)) = 0
     /\ \A i \in 1..Len(UsesOf(node)) :
          (/\ UsesOf(node)[i].k = "ID"
           /\ \A j \in 1..Len(LocalsOf(node)) :
                LocalsOf(node)[j].name # UsesOf(node)[i].name) =>
             Given(NotDefined(UsesOf(node)[i].name)) = 1

(***************************************************************************)
(* Properties of block removal, block merging and dead-code elimination    *)
(***************************************************************************)

\* The blocks block removal takes out of the next_block chain.
Removed(g, g2) == Range(Chain(g)) \ Range(Chain(g2))

\* C21: block removal ends without an exception; the chain it leaves holds
\* the blocks of the chain that are reachable from the head by successor
\* edges and no other, and no predecessor list of a block it leaves holds a
\* block it removed, whether that block is a ConditionBlock or a BasicBlock
\* without successor.
C21_BlockRemovalUnlinks ==
  [][BlockRemoval =>
       /\ err' = ""
       /\ Range(Chain(cg')) = Range(Chain(cg)) \cap Reachable(cg)
       /\ \A b \in Range(Chain(cg')) :
            Range(Preds(cg', b)) \cap Removed(cg, cg') = {}]_vars

\* The instructions of a sequence that are neither a label nor a jump.
NoLabelOrJump(is) == SelectSeq(is, LAMBDA i : i.f \notin {":", "jump"})

\* C22: block merging takes a block b out of the chain only if b is a
\* BasicBlock and the predecessor list of its successor is exactly [b]; it
\* removes labels and jumps only: every other instruction of the function
\* is kept, in its order, also for the block that falls through into the
\* condition of a loop without a jump.
C22_MergeKeepsInstructions ==
  [][(MergeBasicBlocks /\ err' = "") =>
       /\ \A b \in Removed(cg, cg') :
            /\ cg.heap[b].kind = "BasicBlock" /\ cg.heap[b].branch # None
            /\ Preds(cg, cg.heap[b].branch) = <<b>>
       /\ NoLabelOrJump(Emitted(cg')) = NoLabelOrJump(Emitted(cg))]_vars

\* The instructions of a sequence that are not an alloc and have the
\* operand v among their arguments.
Mentions(is, v) ==
  {k \in DOMAIN is : is[k].f # "alloc" /\ v \in Range(is[k].args)}

\* C23: dead-code elimination keeps the alloc of a variable that
\* a surviving instruction of the function still reads or writes, in
\* whatever block that instruction lies.
C23_AllocKept ==
  [][(DeadcodeElimination /\ err' = "") =>
       \A k \in DOMAIN Emitted(cg) :
          (Emitted(cg)[k].f = "alloc"
           /\ Mentions(Emitted(cg'), LastArg(Emitted(cg)[k])) # {})
            => Count(Emitted(cg'), Emitted(cg)[k]) = Count(Emitted(cg), Emitted(cg)[k])]_vars

\* Dead-code elimination has run on a function whose variable x is written
\* and read in other blocks than the one of its alloc, which holds no other
\* instruction on x: a store to x and a load of x are left in reachable
\* blocks.
C23_UsedInLoopOnly ==
  /\ pc = "deadcode_elimination" /\ err = ""
  /\ \E a \in Reachable(cg) :
       /\ \E k \in DOMAIN cg.heap[a].instructions :
            /\ cg.heap[a].instructions[k].f = "alloc"
            /\ LastArg(cg.heap[a].instructions[k]) = Opnd("name", "x", 0)
       /\ Mentions(cg.heap[a].instructions, Opnd("name", "x", 0)) = {}
       /\ \E b \in Reachable(cg) \ {a} :
            /\ \E k \in DOMAIN cg.heap[b].instructions :
                 /\ cg.heap[b].instructions[k].f = "store"
                 /\ LastArg(cg.heap[b].instructions[k]) = Opnd("name", "x", 0)
       /\ \E b \in Reachable(cg) \ {a} :
            \E k \in DOMAIN cg.heap[b].instructions :
               /\ cg.heap[b].instructions[k].f = "load"
               /\ cg.heap[b].instructions[k].args[1] = Opnd("name", "x", 0)

(***************************************************************************)
(* Properties of constant folding                                          *)
(***************************************************************************)
\* The operand p has one definition in the function, a literal.  (In the
\* programs of CfPrograms a temporary is defined once, before its uses.)
OneLiteral(g, p) ==
  Cardinality(DefInsts(g, p)) = 1 /\ \A d \in DefInsts(g, p) : d.f = "literal"
ValueOf(g, p) == (CHOOSE d \in DefInsts(g, p) : TRUE).args[1].n

\* The operand p has one definition in the function, eq or ne of twice the
\* same operand.
OneCanonical(g, p) ==
  /\ Cardinality(DefInsts(g, p)) = 1
  /\ \A d \in DefInsts(g, p) : d.f \in {"eq", "ne"} /\ d.args[1] = d.args[2]
TruthOf(g, p) == (CHOOSE d \in DefInsts(g, p) : TRUE).f = "eq"

\* q is the quotient of a by b rounded down, b # 0.
IsFloor(a, b, q) ==
  IF b > 0 THEN b * q <= a /\ a < b * (q + 1)
  ELSE b * q >= a /\ a > b * (q + 1)

\* i2 is the literal or the canonical boolean that stands for i applied to
\* the values a and b.
FoldsTo(i, a, b, i2) ==
  LET IsLiteral(v) == i2 = Inst("literal", i.s, <<Lit(v), LastArg(i)>>)
      IsBool(t) == i2 = Inst(IF t THEN "eq" ELSE "ne", i.s,
                             <<i.args[1], i.args[1], LastArg(i)>>)
  IN CASE i.f = "add" -> IsLiteral(a + b)
       [] i.f = "sub" -> IsLiteral(a - b)
       [] i.f = "mul" -> IsLiteral(a * b)
       [] i.f = "div" -> \E q \in (0 - MaxLiteral)..MaxLiteral :
                            IsFloor(a, b, q) /\ IsLiteral(q)
       [] i.f = "mod" -> \E q \in (0 - MaxLiteral)..MaxLiteral :
                            IsFloor(a, b, q) /\ IsLiteral(a - b * q)
       [] i.f = "lt" -> IsBool(a < b)
       [] i.f = "le" -> IsBool(a <= b)
       [] i.f = "gt" -> IsBool(a > b)
       [] i.f = "ge" -> IsBool(a >= b)
       [] i.f = "eq" -> IsBool(a = b)
       [] i.f = "ne" -> IsBool(a # b)

ArithOrCompare ==
  {"add", "sub", "mul", "div", "mod", "lt", "le", "gt", "ge", "eq", "ne"}

\* The places <<b, k>> of the instructions of the function.
Places(g) ==
  UNION {{<<b, k>> : k \in DOMAIN g.heap[b].instructions} : b \in Range(Chain(g))}

FoldsToBool(i, s, t, i2) ==
  i2 = Inst(IF (IF i.f = "and" THEN s /\ t ELSE s \/ t) THEN "eq" ELSE "ne", i.s,
            <<i.args[1], i.args[1], LastArg(i)>>)

\* C25: a pass of constant folding replaces every and_bool and or_bool
\* whose operands are both defined by one canonical boolean by the
\* canonical boolean of the conjunction, of the disjunction of the two.
C25_BooleansFolded ==
  [][ConstantFolding =>
       \A bk \in Places(cg) :
          LET i == cg.heap[bk[1]].instructions[bk[2]]
              i2 == cg'.heap[bk[1]].instructions[bk[2]]
          IN (/\ i.f \in {"and", "or"} /\ i.s = <<"bool">>
              /\ OneCanonical(cg', i.args[1]) /\ OneCanonical(cg', i.args[2]))
               => FoldsToBool(i, TruthOf(cg', i.args[1]), TruthOf(cg', i.args[2]), i2)]_vars

\* C30: a pass of constant folding ends without an error on every function,
\* whatever the values of the literals (a zero divisor of div and mod
\* included) and the canonical booleans its instructions compute with, and
\* keeps the place of every instruction.
C30_FoldingTotal ==
  [][ConstantFolding =>
       /\ err' = ""
       /\ Places(cg') = Places(cg)]_vars

(***************************************************************************)
(* Properties of the temporaries and of the edges of the lowered CFG       *)
(***************************************************************************)
\* The places of the emitted instructions that define the operand t.
DefPlaces(g, t) ==
  {k \in DOMAIN Emitted(g) : definition_re(Emitted(g)[k]) /\ LastArg(Emitted(g)[k]) = t}

\* C26: in the instructions lowered for a function, a numbered temporary
\* is the last operand of at most one defining instruction, the return
\* slot of a function with several return statements included.
C26_TemporaryDefinedOnce ==
  (pc = "lowered" /\ err = "") =>
     \A t \in Range(Operands(Emitted(cg))) :
        t.k = "temp" => Cardinality(DefPlaces(cg, t)) <= 1

\* C27: after the lowering the predecessor lists and the successor slots
\* hold the same edges: a block b of the chain is in the predecessor list
\* of a block s of the chain once if s is in a successor slot of b, and not
\* at all otherwise; so also when a break or a return stands in the body
\* of a loop or in front of further statements.
C27_EdgesAgree ==
  (pc = "lowered" /\ err = "") =>
     \A b \in Range(Chain(cg)), s \in Range(Chain(cg)) :
        Count(Preds(cg, s), b) = IF s \in Succs(cg, b) THEN 1 ELSE 0

(***************************************************************************)
(* Properties of copy propagation on straight-line code                    *)
(***************************************************************************)
\* The instruction at place k of ga read the temporary t in its operand p
\* and reads v there in g2, v being the source of the load or store at
\* place d, the one definition of t.
Copied(ga, g2, k, p, d) ==
  LET I == Emitted(ga)[k]
      I2 == Emitted(g2)[k]
      D == Emitted(ga)[d]
  IN /\ I2.f = I.f /\ Len(I2.args) = Len(I.args) /\ p < Len(I.args)
     /\ I.args[p].k = "temp" /\ I2.args[p] # I.args[p]
     /\ DefPlaces(ga, I.args[p]) = {d} /\ d < k
     /\ D.f \in {"load", "store"} /\ I2.args[p] = D.args[1]

\* The instructions between the places d and k of g that define v.
Redefined(g, d, k, v) ==
  {j \in (d + 1)..(k - 1) :
     definition_re(Emitted(g)[j]) /\ LastArg(Emitted(g)[j]) = v}

\* C28: when copy propagation puts the source v of the one definition D of
\* a temporary t in the place of t in an instruction I, no instruction
\* between D and I defines v; so the old value that x++ or x-- leaves in a
\* temporary is not replaced by x behind the store back to x.
C28_CopiesStayValid ==
  [][(CopyPropagation /\ err' = "") =>
       \A k \in DOMAIN Emitted(cg), d \in DOMAIN Emitted(cg), p \in 1..2 :
          Copied(cg, cg', k, p, d) => Redefined(cg, d, k, Emitted(cg')[k].args[p]) = {}]_vars

(***************************************************************************)
(* Properties of the constant pool                                         *)
(***************************************************************************)
\* The global instructions that define the operand o.
PoolEntries(g, o) == {j \in DOMAIN g.global_code : g.global_code[j].args[1] = o}

\* C29: once the pool is emitted, the operand @.str.<i> of every
\* instruction of a function is defined by a global instruction, whose
\* value is the literal interned for that instruction; so also for a local
\* array with the initializer of a global array and for the empty string.
C29_PoolEntriesEmitted ==
  pc = "emitted" =>
     \A k \in DOMAIN cg.code :
        /\ PoolEntries(cg, cg.code[k].args[1]) # {}
        /\ \A j \in PoolEntries(cg, cg.code[k].args[1]) :
              cg.global_code[j].value = cg.literal[k]

====
